---- MODULE Spec2Model ----
(***************************************************************************)
(* A model of stagegen (codecrafters-io/stagegen).                         *)
(*                                                                         *)
(*   SpecPool  : runPool, the bounded promise pool of src/src/index.ts     *)
(*   SpecFind  : findMainFileRecursive, the file-discovery heuristic of    *)
(*               src/src/io.ts, over bounded directory trees               *)
(*   SpecMain  : main, the orchestrator of src/src/index.ts: reference     *)
(*               titles, one generation pipeline per target language       *)
(*   SpecHints : writeTargetHints and readReferenceHints of src/src/io.ts, *)
(*               the hints file written and read back                      *)
(*   SpecCli   : parseCLI of src/src/cli.ts and the concurrency settings   *)
(*   SpecPrep  : prepareSolutionCodeDir of src/src/io.ts over a small      *)
(*               filesystem                                                *)
(*   SpecLog   : write, the serialized logger of src/src/logger.ts         *)
(*   SpecRun   : one run of the program, from the loading of its modules   *)
(*               to the exit code, with its filesystem mutations           *)
(*   SpecPoolFair : runPool when no task throws and every task that can    *)
(*               settle eventually does                                    *)
(*   SpecCliFlags : parseCLI on command lines that repeat a flag           *)
(*   SpecIo    : readStageDescription, findPreviousStageId and the         *)
(*               optional-input readers of src/src/io.ts                   *)
(*   SpecCode  : the model's response, from the chat completion to the     *)
(*               solution file (src/src/generate.ts, src/src/index.ts)     *)
(*                                                                         *)
(* Each specification moves only its own group of variables; the other     *)
(* groups stay at their idle values.                                       *)
(***************************************************************************)
EXTENDS Integers, Sequences, FiniteSets, TLC

VARIABLES
    \* ---- runPool (index.ts:39-61)
    limit,      \* the limit argument, a JS number
    nTasks,     \* tasks.length
    next,       \* the shared counter `next`
    results,    \* the results array, index -> value or Empty
    workers,    \* the worker promises, in creation order
    taskState,  \* per task: "unstarted", "pending", "fulfilled", "rejected"
    returned,   \* per task: the value its promise fulfilled with (history)
    calls,      \* per task: how many times tasks[i]() was called (history)
    poolState,  \* the promise runPool returned: "init", "pending", "resolved", "rejected"
    poolError,  \* the task whose error runPool rejected with, or NoTask
    rejLog,     \* the tasks that rejected, in the order they rejected (history)
    hung,       \* the tasks whose promise never settles
    lateStarts  \* the tasks called after runPool's promise rejected (history)

poolVars == <<limit, nTasks, next, results, workers, taskState, returned,
              calls, poolState, poolError, rejLog, hung, lateStarts>>

VARIABLES
    \* ---- findMainFileRecursive (io.ts:115-191) and the directory tree it reads
    tree,        \* the directory tree: the entries of TreeUniverse that exist
    findExt,     \* the argument ext
    readdirRev,  \* whether fs.readdir lists a directory in the reverse order
    rootIdx,     \* the position of `for (const root of ROOTS)`
    phase1Hits,  \* phase1Hits
    phase2Hits,  \* phase2Hits
    findPc,      \* "idle", "phase1", "after1", "after2", "done", "threw"
    findResult   \* the returned value: [found, fp]; found = FALSE is null

findVars == <<tree, findExt, readdirRev, rootIdx, phase1Hits, phase2Hits, findPc, findResult>>

VARIABLES
    \* ---- main (index.ts:63-249)
    refConfigs,    \* per reference language: its config.yml on disk
    examples,      \* examples
    fixedTitles,   \* fixedTitles
    mainPc,        \* where main is
    langPc,        \* per target: where its language task is
    promptTitles,  \* per target: the fixed titles its hints request carried
    genHints,      \* per target: the hints generateHints returned
    cfgFile        \* per target: its config.yml as written

mainVars == <<refConfigs, examples, fixedTitles, mainPc, langPc, promptTitles,
              genHints, cfgFile>>

VARIABLES
    \* ---- writeTargetHints / readReferenceHints (io.ts:276-314, 471-495)
    hintsIn,    \* the argument hints of writeTargetHints
    hintsFile,  \* config.yml: [exists, lines]
    hintsDry,   \* the argument dry
    hintsOut,   \* what readReferenceHints returned
    hintsPc     \* "idle", "start", "written", "read"

hintsVars == <<hintsIn, hintsDry, hintsFile, hintsOut, hintsPc>>

VARIABLES
    \* ---- parseCLI (cli.ts:8-75) and the settings main derives (index.ts:64-90)
    argv,      \* process.argv.slice(2)
    envLang,   \* STAGEGEN_LANG_CONCURRENCY
    envTask,   \* STAGEGEN_TASK_CONCURRENCY
    cliOpts,   \* what parseCLI returned
    langConc,  \* LANG_CONC
    taskConc,  \* TASK_CONC
    cliPc      \* "idle", "start", "parsed", "configured"

cliVars == <<argv, envLang, envTask, cliOpts, langConc, taskConc, cliPc>>

VARIABLES
    \* ---- prepareSolutionCodeDir (io.ts:206-236)
    starter,     \* compiled_starters/<language>: [exists, entries]
    codeDir,     \* solutions/<language>/<stageId>/code: [exists, entries]
    codeDir0,    \* the code directory when prepareSolutionCodeDir was called (history)
    codeParent,  \* whether solutions/<language>/<stageId> exists
    hasCp,       \* whether the runtime has fs.cp
    prepPc       \* "idle", "check", "rm", "mkdir", "copy", "done", "threw"

prepVars == <<starter, codeDir, codeDir0, codeParent, hasCp, prepPc>>

VARIABLES
    \* ---- the logger's write queue (logger.ts:11-21)
    logCalls,     \* the lines write() was called with, in call order (history)
    chain,        \* the calls whose callback of chain.then has not run yet
    stdout,       \* what process.stdout.write was given, chunk by chunk
    logAwait,     \* per caller: the call whose `await chain` it is suspended in, or 0
    logResolved   \* the calls whose promise has resolved (history)

logVars == <<logCalls, chain, stdout, logAwait, logResolved>>

VARIABLES
    \* ---- one run of the program (openai.ts, index.ts:63-249) over the
    \*      files of challenges/<slug>
    rEnv,        \* the environment: [apiKey, dry]
    rArgv,       \* process.argv.slice(2)
    rLimit,      \* LANG_CONC
    rSolutions,  \* challenges/<slug>/solutions: [readable, entries]
    rStarters,   \* the languages that have compiled_starters/<language>
    rStageDesc,  \* whether the stage description exists
    rTargets,    \* TARGETS
    rPc,         \* where the process is
    rTasks,      \* per language task: where it is
    rNext,       \* the counter `next` of the pool over the languages
    rRejected,   \* whether main's promise is rejected
    rReads,      \* whether a file of the challenge has been read (history)
    rCalls,      \* the backend calls made, per language task (history)
    rGenerated,  \* the tasks whose two generations both succeeded (history)
    rOps,        \* the filesystem mutations made: [task, lang, op] (history)
    rPrinted,    \* what the process printed last: "", "key", "error", "summary"
    rExit        \* the exit code, or NoExit

runVars == <<rEnv, rArgv, rLimit, rSolutions, rStarters, rStageDesc, rTargets, rPc,
             rTasks, rNext, rRejected, rReads, rCalls, rGenerated, rOps, rPrinted, rExit>>

VARIABLES
    \* ---- the readers of io.ts (io.ts:316-431), one call on one on-disk state
    ioCall,     \* the call: the function, its arguments and the files it finds
    ioOut,      \* what the call returned or threw
    ioPc        \* "idle", "called" or "returned"

ioVars == <<ioCall, ioOut, ioPc>>

VARIABLES
    \* ---- the solution text of one target, from the backend's response to the
    \*      entry file (generate.ts:155-209, index.ts:164-217, io.ts:269-271)
    codeResp,   \* resp.choices[0].message?.content
    codeDry,    \* DRY
    codeSol,    \* sol.code, once generateSolutionCode has returned
    codeFile,   \* the entry file's text, NotWritten before the write
    codePc      \* "idle", "asked", "generated" or "written"

codeVars == <<codeResp, codeDry, codeSol, codeFile, codePc>>

vars == <<poolVars, findVars, mainVars, hintsVars, cliVars, prepVars, logVars, runVars, ioVars, codeVars>>

\* What an action of one group leaves alone
otherThanPool == <<findVars, mainVars, hintsVars, cliVars, prepVars, logVars, runVars, ioVars, codeVars>>
otherThanFind == <<poolVars, mainVars, hintsVars, cliVars, prepVars, logVars, runVars, ioVars, codeVars>>
otherThanMain == <<poolVars, findVars, hintsVars, cliVars, prepVars, logVars, runVars, ioVars, codeVars>>
otherThanHints == <<poolVars, findVars, mainVars, cliVars, prepVars, logVars, runVars, ioVars, codeVars>>
otherThanCli == <<poolVars, findVars, mainVars, hintsVars, prepVars, logVars, runVars, ioVars, codeVars>>
otherThanPrep == <<poolVars, findVars, mainVars, hintsVars, cliVars, logVars, runVars, ioVars, codeVars>>
otherThanLog == <<poolVars, findVars, mainVars, hintsVars, cliVars, prepVars, runVars, ioVars, codeVars>>
otherThanRun == <<poolVars, findVars, mainVars, hintsVars, cliVars, prepVars, logVars, ioVars, codeVars>>
otherThanIo == <<poolVars, findVars, mainVars, hintsVars, cliVars, prepVars, logVars, runVars, codeVars>>
otherThanCode == <<poolVars, findVars, mainVars, hintsVars, cliVars, prepVars, logVars, runVars, ioVars>>

\* ------------------------------------------------------------------ bounds

MaxTasks == 3
MaxLimit == 4

\* ------------------------------------------------------------ JS numbers

\* A JS number as far as runPool tells numbers apart: an integer or NaN.
Num(k) == [nan |-> FALSE, v |-> k]
NaN == [nan |-> TRUE, v |-> 0]

\* a < b of JS: false whenever an operand is NaN
JsLess(a, b) == ~a.nan /\ ~b.nan /\ a.v < b.v

\* Math.min(a, b): NaN if an operand is NaN
MathMin(a, b) ==
    IF a.nan \/ b.nan THEN NaN
    ELSE IF a.v <= b.v THEN a ELSE b

\* Array.from({ length: x }): ToLength(x), which maps NaN and negatives to 0
ArrayFromLength(x) == IF x.nan \/ x.v <= 0 THEN 0 ELSE x.v

\* ------------------------------------------------------------------ runPool

Values == {"a", "b"}
Empty == "empty"        \* a hole of new Array(n)
NotRun == "notrun"      \* the task has returned nothing
NoTask == -1

\* index.ts:43  if (limit < 1) limit = 1;
ClampLimitBelowZero(l) == IF JsLess(l, Num(0)) THEN Num(1) ELSE l
ClampLimit(l) == IF JsLess(l, Num(1)) THEN Num(1) ELSE l

\* index.ts:56  Array.from({ length: Math.min(limit, tasks.length) }, ...)
WorkerCountIgnoresLimit(l, n) == n
WorkerCount(l, n) == ArrayFromLength(MathMin(ClampLimit(l), Num(n)))

\* index.ts:52  results[i] = <the awaited value>
StoreResult(res, i, v) == [res EXCEPT ![i] = v]

\* index.ts:49-52 with a worker that returns once runPool has rejected
WorkerClaimStopsAfterReject(st, w) ==
    LET i == st.next
    IN  IF i >= nTasks \/ poolState = "rejected"
        THEN [st EXCEPT !.next = i + 1,
                        !.workers[w] = [pc |-> "returned", i |-> NoTask]]
        ELSE [st EXCEPT !.next = i + 1,
                        !.workers[w] = [pc |-> "await", i |-> i],
                        !.taskState[i] = "pending",
                        !.calls[i] = st.calls[i] + 1]

\* index.ts:49-52 with `i >= tasks.length - 1` in the place of line 51
WorkerClaimStopsEarly(st, w) ==
    LET i == st.next
    IN  IF i >= nTasks - 1
        THEN [st EXCEPT !.next = i + 1,
                        !.workers[w] = [pc |-> "returned", i |-> NoTask]]
        ELSE [st EXCEPT !.next = i + 1,
                        !.workers[w] = [pc |-> "await", i |-> i],
                        !.taskState[i] = "pending",
                        !.calls[i] = st.calls[i] + 1]

\* index.ts:49-52, one turn of the worker loop up to its await: claim the next
\* index; past the end the worker returns, otherwise the task is called and
\* the worker awaits it.  st = [next, workers, taskState, calls]
WorkerClaim(st, w) ==
    LET i == st.next
    IN  IF i >= nTasks
        THEN [st EXCEPT !.next = i + 1,
                        !.workers[w] = [pc |-> "returned", i |-> NoTask]]
        ELSE [st EXCEPT !.next = i + 1,
                        !.workers[w] = [pc |-> "await", i |-> i],
                        !.taskState[i] = "pending",
                        !.calls[i] = st.calls[i] + 1]

\* index.ts:56-58: the workers are created one after the other, each running
\* synchronously up to its first await
RECURSIVE SpawnWorkers(_, _, _)
SpawnWorkers(st, w, count) ==
    IF w > count THEN st
    ELSE SpawnWorkers(WorkerClaim(st, w), w + 1, count)

\* index.ts:59-60  await Promise.all(workers); return results;
\* Promise.all rejects with the first worker that rejects and fulfils once
\* every worker has returned; a settled promise never changes.
PromiseAllWaitsForAll(state, err, ws, rejected) ==
    IF state # "pending" THEN [state |-> state, err |-> err]
    ELSE IF \A w \in DOMAIN ws : ws[w].pc # "await"
    THEN IF \E w \in DOMAIN ws : ws[w].pc = "rejected"
         THEN [state |-> "rejected",
               err |-> IF rejected # NoTask THEN rejected
                       ELSE (CHOOSE w \in DOMAIN ws : ws[w].pc = "rejected").i]
         ELSE [state |-> "resolved", err |-> NoTask]
    ELSE [state |-> state, err |-> err]
PromiseAll(state, err, ws, rejected) ==
    IF state # "pending" THEN [state |-> state, err |-> err]
    ELSE IF rejected # NoTask THEN [state |-> "rejected", err |-> rejected]
    ELSE IF \A w \in DOMAIN ws : ws[w].pc = "returned"
    THEN [state |-> "resolved", err |-> NoTask]
    ELSE [state |-> state, err |-> err]

LimitValues == {Num(k) : k \in -1..MaxLimit} \cup {NaN}

IdlePool ==
    /\ limit = Num(1)
    /\ nTasks = 0
    /\ next = 0
    /\ results = << >>
    /\ workers = << >>
    /\ taskState = << >>
    /\ returned = << >>
    /\ calls = << >>
    /\ poolState = "idle"
    /\ poolError = NoTask
    /\ rejLog = << >>
    /\ hung = {}
    /\ lateStarts = {}

InitPool ==
    /\ limit \in LimitValues
    /\ nTasks \in 0..MaxTasks
    /\ next = 0
    /\ results = << >>
    /\ workers = << >>
    /\ taskState = [i \in 0..(nTasks - 1) |-> "unstarted"]
    /\ returned = [i \in 0..(nTasks - 1) |-> NotRun]
    /\ calls = [i \in 0..(nTasks - 1) |-> 0]
    /\ poolState = "init"
    /\ poolError = NoTask
    /\ rejLog = << >>
    /\ hung \in SUBSET (0..(nTasks - 1))
    /\ lateStarts = {}

\* index.ts:39-59: the call of runPool up to its await
RunPoolCall ==
    /\ poolState = "init"
    /\ LET count == WorkerCount(limit, nTasks)
           st0 == [next |-> next,
                   workers |-> [w \in 1..count |-> [pc |-> "new", i |-> NoTask]],
                   taskState |-> taskState, calls |-> calls]
           st == SpawnWorkers(st0, 1, count)
           p == PromiseAll("pending", NoTask, st.workers, NoTask)
       IN  /\ results' = [i \in 0..(nTasks - 1) |-> Empty]
           /\ next' = st.next
           /\ workers' = st.workers
           /\ taskState' = st.taskState
           /\ calls' = st.calls
           /\ poolState' = p.state
           /\ poolError' = p.err
    /\ UNCHANGED <<limit, nTasks, returned, rejLog, hung, lateStarts>>
    /\ UNCHANGED otherThanPool

\* index.ts:52 then 49-51: the task worker w awaits fulfils with v; the worker
\* stores it and goes round its loop
TaskFulfil(w, v) ==
    /\ w \in DOMAIN workers
    /\ workers[w].pc = "await"
    /\ workers[w].i \notin hung
    /\ LET i == workers[w].i
           st0 == [next |-> next, workers |-> workers,
                   taskState |-> [taskState EXCEPT ![i] = "fulfilled"],
                   calls |-> calls]
           st == WorkerClaim(st0, w)
           p == PromiseAll(poolState, poolError, st.workers, NoTask)
       IN  /\ results' = StoreResult(results, i, v)
           /\ returned' = [returned EXCEPT ![i] = v]
           /\ next' = st.next
           /\ workers' = st.workers
           /\ taskState' = st.taskState
           /\ calls' = st.calls
           /\ poolState' = p.state
           /\ poolError' = p.err
           /\ lateStarts' = IF poolState = "rejected" /\ st.workers[w].pc = "await"
                             THEN lateStarts \cup {st.workers[w].i}
                             ELSE lateStarts
    /\ UNCHANGED <<limit, nTasks, rejLog, hung>>
    /\ UNCHANGED otherThanPool

\* index.ts:52: the task worker w awaits rejects; the await throws, the worker's
\* promise rejects, and Promise.all sees it
TaskReject(w) ==
    /\ w \in DOMAIN workers
    /\ workers[w].pc = "await"
    /\ workers[w].i \notin hung
    /\ LET i == workers[w].i
           ws == [workers EXCEPT ![w] = [pc |-> "rejected", i |-> i]]
           p == PromiseAll(poolState, poolError, ws, i)
       IN  /\ taskState' = [taskState EXCEPT ![i] = "rejected"]
           /\ workers' = ws
           /\ rejLog' = Append(rejLog, i)
           /\ poolState' = p.state
           /\ poolError' = p.err
    /\ UNCHANGED <<limit, nTasks, next, results, returned, calls, hung, lateStarts>>
    /\ UNCHANGED otherThanPool

NextPool ==
    \/ RunPoolCall
    \/ \E w \in 1..MaxTasks, v \in Values : TaskFulfil(w, v)
    \/ \E w \in 1..MaxTasks : TaskReject(w)

\* The steps of a pool none of whose tasks rejects
NextPoolFair ==
    \/ RunPoolCall
    \/ \E w \in 1..MaxTasks, v \in Values : TaskFulfil(w, v)

\* ------------------------------------------------------------------ strings

\* A string is the sequence of its characters.
Lower == <<"a","b","c","d","e","f","g","h","i","j","k","l","m",
           "n","o","p","q","r","s","t","u","v","w","x","y","z">>
Upper == <<"A","B","C","D","E","F","G","H","I","J","K","L","M",
           "N","O","P","Q","R","S","T","U","V","W","X","Y","Z">>
Punct == <<".", "/">>

IndexOf(seq, x) ==
    IF \E k \in 1..Len(seq) : seq[k] = x
    THEN CHOOSE k \in 1..Len(seq) : seq[k] = x /\ \A j \in 1..(k - 1) : seq[j] # x
    ELSE 0

\* String.prototype.endsWith
EndsWith(str, suffix) ==
    /\ Len(suffix) <= Len(str)
    /\ SubSeq(str, Len(str) - Len(suffix) + 1, Len(str)) = suffix

\* path.basename(name, ext) of a name without separators: the extension is
\* cut off when the name ends in it; a name equal to the extension gives "".
Basename(name, suffix) ==
    IF Len(suffix) > 0 /\ EndsWith(name, suffix)
    THEN SubSeq(name, 1, Len(name) - Len(suffix))
    ELSE name

\* String.prototype.localeCompare on the characters the model uses: the
\* strings are compared by their letters without regard to case (punctuation
\* before letters), and strings equal that far by case, lower case first.
PrimaryWeight(c) ==
    IF IndexOf(Punct, c) > 0 THEN IndexOf(Punct, c)
    ELSE IF IndexOf(Lower, c) > 0 THEN Len(Punct) + IndexOf(Lower, c)
    ELSE Len(Punct) + IndexOf(Upper, c)
CaseWeight(c) == IF IndexOf(Upper, c) > 0 THEN 1 ELSE 0

RECURSIVE SeqCompare(_, _)
SeqCompare(a, b) ==
    IF a = << >> /\ b = << >> THEN 0
    ELSE IF a = << >> THEN -1
    ELSE IF b = << >> THEN 1
    ELSE IF Head(a) # Head(b) THEN (IF Head(a) < Head(b) THEN -1 ELSE 1)
    ELSE SeqCompare(Tail(a), Tail(b))

LocaleCompare(a, b) ==
    LET prim == SeqCompare([k \in 1..Len(a) |-> PrimaryWeight(a[k])],
                           [k \in 1..Len(b) |-> PrimaryWeight(b[k])])
    IN  IF prim # 0 THEN prim
        ELSE SeqCompare([k \in 1..Len(a) |-> CaseWeight(a[k])],
                        [k \in 1..Len(b) |-> CaseWeight(b[k])])

\* ------------------------------------------------------------- file names

N_src == <<"s","r","c">>
N_lib == <<"l","i","b">>
N_app == <<"a","p","p">>
N_Sources == <<"S","o","u","r","c","e","s">>
N_main == <<"m","a","i","n">>
N_Main == <<"M","a","i","n">>
N_index == <<"i","n","d","e","x">>
N_Index == <<"I","n","d","e","x">>
N_App == <<"A","p","p">>
N_server == <<"s","e","r","v","e","r">>
N_Server == <<"S","e","r","v","e","r">>
N_core == <<"c","o","r","e">>
N_Core == <<"C","o","r","e">>
N_program == <<"p","r","o","g","r","a","m">>
N_Program == <<"P","r","o","g","r","a","m">>
N_util == <<"u","t","i","l">>
N_Zed == <<"Z","e","d">>
DotPy == <<".","p","y">>
DotRs == <<".","r","s">>

\* io.ts:83
ROOTS_LibFirst == <<N_lib, N_src, N_app, N_Sources>>
ROOTS == <<N_src, N_lib, N_app, N_Sources>>
\* io.ts:84-98
PREFERRED_NAMES == <<N_main, N_Main, N_index, N_Index, N_app, N_App, N_server,
                     N_Server, N_core, N_Core, N_program, N_Program, N_Sources>>

\* Number.POSITIVE_INFINITY among the ranks: above every index of the list
RankInfinity == Len(PREFERRED_NAMES)

\* io.ts:100-103
PrefRank(basename) ==
    LET i == IndexOf(PREFERRED_NAMES, basename) - 1
    IN  IF i >= 0 THEN i ELSE RankInfinity

\* io.ts:129 and io.ts:163
MaxDepth1 == 12
MaxDepth2 == 20

\* ------------------------------------------------------- the directory tree

\* A path is the sequence of its names below baseDir; baseDir itself is << >>.
BaseDir == <<"b">>

RECURSIVE Chain(_, _)
Chain(name, k) == IF k = 0 THEN << >> ELSE <<name>> \o Chain(name, k - 1)

File(path) == [path |-> path, kind |-> "file"]
Dir(path) == [path |-> path, kind |-> "dir"]
NoDir(path) == [path |-> path, kind |-> "nodir"]    \* a directory readdir fails on
Missing(path) == [path |-> path, kind |-> "missing"]

\* The entries a tree is made of.  A tree is a set of at most MaxEntries of
\* them; the directories above an entry exist and are readable unless an
\* entry of the tree says otherwise.
TreeUniverse == <<
    File(<<N_src, N_server \o DotPy>>),
    File(<<N_src, N_util \o DotPy>>),
    File(<<N_src, N_Zed \o DotPy>>),
    File(<<N_src, <<"a">>, N_main \o DotPy>>),
    File(<<N_src, <<"a">>, N_util \o DotPy>>),
    File(<<N_src, <<"b">>, N_util \o DotPy>>),
    File(<<N_src, N_main \o DotRs>>),
    File(<<N_src>> \o Chain(<<"d">>, MaxDepth1) \o <<N_main \o DotPy>>),
    File(<<N_src>> \o Chain(<<"d">>, MaxDepth1 + 1) \o <<N_main \o DotPy>>),
    File(<<N_lib, N_main \o DotPy>>),
    File(<<N_app, N_app \o DotPy>>),
    File(<<N_Sources, N_Main \o DotPy>>),
    File(<<N_util \o DotPy>>),
    File(<<<<"x">>, N_main \o DotPy>>),
    File(<<<<"x">>, <<"y">>, N_util \o DotPy>>),
    File(<<<<"x">>, <<"y">>, N_Zed \o DotPy>>),
    File(<<<<"x">>>> \o Chain(<<"d">>, MaxDepth2 - 1) \o <<N_util \o DotPy>>),
    File(<<<<"x">>>> \o Chain(<<"d">>, MaxDepth2) \o <<N_main \o DotPy>>),
    File(<<N_src>>),
    NoDir(<<N_src>>),
    NoDir(<<N_src, <<"a">>>>),
    Dir(<<N_lib>>),
    NoDir(<<<<"x">>, <<"y">>>>),
    Missing(<< >>)
>>

EntryIds == 1..Len(TreeUniverse)

IsPrefix(p, q) == Len(p) <= Len(q) /\ SubSeq(q, 1, Len(p)) = p

\* A set of entries is a tree when no path has two kinds and nothing lies
\* below a regular file.
IsTree(ids) ==
    \A a, b \in ids :
        a # b =>
            /\ TreeUniverse[a].path # TreeUniverse[b].path
            /\ ~(TreeUniverse[a].kind = "file"
                 /\ IsPrefix(TreeUniverse[a].path, TreeUniverse[b].path))

BaseMissing == \E id \in tree : TreeUniverse[id].kind = "missing"

Exists(path) ==
    /\ ~BaseMissing
    /\ \/ path = << >>
       \/ \E id \in tree : IsPrefix(path, TreeUniverse[id].path)

KindOf(path) ==
    IF \E id \in tree : TreeUniverse[id].path = path
    THEN TreeUniverse[CHOOSE id \in tree : TreeUniverse[id].path = path].kind
    ELSE "dir"

\* fs.stat(path): FALSE when it throws
StatOk(path) == Exists(path)

\* The names fs.readdir lists for a directory, in the order it lists them
RECURSIVE ChildNames(_, _, _)
ChildNames(path, ids, acc) ==
    IF ids = << >> THEN acc
    ELSE LET id == Head(ids)
             q == TreeUniverse[id].path
             here == id \in tree /\ Len(q) > Len(path) /\ IsPrefix(path, q)
             name == q[Len(path) + 1]
         IN  IF here /\ IndexOf(acc, name) = 0
             THEN ChildNames(path, Tail(ids), Append(acc, name))
             ELSE ChildNames(path, Tail(ids), acc)

ListingOrder ==
    IF readdirRev
    THEN [k \in EntryIds |-> Len(TreeUniverse) + 1 - k]
    ELSE [k \in EntryIds |-> k]

\* fs.readdir(path, { withFileTypes: true }): ok = FALSE when it throws (the
\* path is missing, is not a directory, or cannot be read)
ReadDir(path) ==
    IF ~Exists(path) \/ KindOf(path) # "dir"
    THEN [ok |-> FALSE, entries |-> << >>]
    ELSE LET names == ChildNames(path, ListingOrder, << >>)
         IN  [ok |-> TRUE,
              entries |-> [k \in 1..Len(names) |->
                  [name |-> names[k],
                   isFile |-> KindOf(Append(path, names[k])) = "file",
                   isDirectory |-> KindOf(Append(path, names[k])) # "file"]]]

\* io.ts:44-51
PathExists(path) == StatOk(path)

\* io.ts:193-199
SafeReadDirNoCatch(path) == ReadDir(path)
SafeReadDir(path) ==
    LET r == ReadDir(path)
    IN  IF r.ok THEN r ELSE [ok |-> TRUE, entries |-> << >>]

\* path.join(dir, name)
PathJoin(dir, name) == Append(dir, name)

\* The string of a path, as localeCompare sees it
RECURSIVE PathString(_)
PathString(path) ==
    IF path = << >> THEN BaseDir
    ELSE PathString(SubSeq(path, 1, Len(path) - 1)) \o <<"/">> \o path[Len(path)]

\* ---------------------------------------------------- findMainFileRecursive

\* io.ts:136-144 (and 170-178): the entries of one directory, in order.
\* acc = [queue, hits]
RECURSIVE VisitEntries(_, _, _, _, _)
VisitEntries(entries, dir, depth, ext, acc) ==
    IF entries = << >> THEN acc
    ELSE LET de == Head(entries)
             fp == PathJoin(dir, de.name)
             acc2 ==
                 IF de.isDirectory
                 THEN [acc EXCEPT !.queue = Append(@, [dir |-> fp, depth |-> depth + 1])]
                 ELSE IF de.isFile /\ EndsWith(de.name, ext)
                 THEN [acc EXCEPT !.hits = Append(@,
                          [fp |-> fp, depth |-> depth,
                           rank |-> PrefRank(Basename(de.name, ext))])]
                 ELSE acc
         IN  VisitEntries(Tail(entries), dir, depth, ext, acc2)

\* io.ts:131-145 (and 165-179): the breadth-first scan.  The result is
\* [threw, hits]; threw = TRUE when a directory read threw out of the loop.
RECURSIVE Scan(_, _, _, _)
Scan(queue, hits, maxDepth, ext) ==
    IF queue = << >> THEN [threw |-> FALSE, hits |-> hits]
    ELSE LET item == Head(queue)
         IN  IF item.depth > maxDepth
             THEN Scan(Tail(queue), hits, maxDepth, ext)
             ELSE LET r == SafeReadDir(item.dir)
                  IN  IF ~r.ok THEN [threw |-> TRUE, hits |-> hits]
                      ELSE LET acc == VisitEntries(r.entries, item.dir, item.depth, ext,
                                          [queue |-> Tail(queue), hits |-> hits])
                           IN  Scan(acc.queue, acc.hits, maxDepth, ext)

\* io.ts:150-154
Phase1CompareDepthFirst(a, b) ==
    IF a.depth # b.depth THEN a.depth - b.depth
    ELSE IF a.rank # b.rank THEN a.rank - b.rank
    ELSE LocaleCompare(PathString(a.fp), PathString(b.fp))
Phase1Compare(a, b) ==
    IF a.rank # b.rank THEN a.rank - b.rank
    ELSE IF a.depth # b.depth THEN a.depth - b.depth
    ELSE LocaleCompare(PathString(a.fp), PathString(b.fp))

\* io.ts:184-188
Phase2CompareShallowFirst(a, b) ==
    IF a.depth # b.depth THEN a.depth - b.depth
    ELSE IF a.rank # b.rank THEN a.rank - b.rank
    ELSE LocaleCompare(PathString(a.fp), PathString(b.fp))
Phase2Compare(a, b) ==
    IF a.depth # b.depth THEN b.depth - a.depth
    ELSE IF a.rank # b.rank THEN a.rank - b.rank
    ELSE LocaleCompare(PathString(a.fp), PathString(b.fp))

\* Array.prototype.sort with the comparator of the phase: a stable sort
Compare(phase, a, b) == IF phase = 1 THEN Phase1Compare(a, b) ELSE Phase2Compare(a, b)

RECURSIVE InsertSorted(_, _, _)
InsertSorted(phase, sorted, x) ==
    IF sorted = << >> THEN <<x>>
    ELSE IF Compare(phase, x, Head(sorted)) < 0 THEN <<x>> \o sorted
    ELSE <<Head(sorted)>> \o InsertSorted(phase, Tail(sorted), x)

RECURSIVE SortHits(_, _)
SortHits(phase, hits) ==
    IF hits = << >> THEN << >>
    ELSE InsertSorted(phase, SortHits(phase, SubSeq(hits, 1, Len(hits) - 1)),
                      hits[Len(hits)])

Null == [found |-> FALSE, fp |-> << >>]
Found(fp) == [found |-> TRUE, fp |-> fp]

\* The extensions findMainFileRecursive is called with
Exts == {DotPy, DotRs}

MaxEntries == 3

IdleFind ==
    /\ tree = {}
    /\ findExt = DotPy
    /\ readdirRev = FALSE
    /\ rootIdx = 1
    /\ phase1Hits = << >>
    /\ phase2Hits = << >>
    /\ findPc = "idle"
    /\ findResult = Null

\* The sets of at most k entries
RECURSIVE EntrySetsUpTo(_)
EntrySetsUpTo(k) ==
    IF k = 0 THEN {{}}
    ELSE LET smaller == EntrySetsUpTo(k - 1)
         IN  smaller \cup {ids \cup {id} : ids \in smaller, id \in EntryIds}

InitFindVars ==
    /\ tree \in {ids \in EntrySetsUpTo(MaxEntries) : IsTree(ids)}
    /\ findExt \in Exts
    /\ readdirRev \in BOOLEAN
    /\ rootIdx = 1
    /\ phase1Hits = << >>
    /\ phase2Hits = << >>
    /\ findPc = "phase1"
    /\ findResult = Null

\* io.ts:122-147, one turn of `for (const root of ROOTS)`
Phase1Root ==
    /\ findPc = "phase1"
    /\ LET rootDir == PathJoin(<< >>, ROOTS[rootIdx])
           last == rootIdx = Len(ROOTS)
       IN  IF ~PathExists(rootDir)
           THEN /\ findPc' = IF last THEN "after1" ELSE "phase1"
                /\ rootIdx' = IF last THEN rootIdx ELSE rootIdx + 1
                /\ UNCHANGED phase1Hits
           ELSE LET s == Scan(<<[dir |-> rootDir, depth |-> 0]>>, phase1Hits,
                              MaxDepth1, findExt)
                IN  IF s.threw
                    THEN /\ findPc' = "threw"
                         /\ UNCHANGED <<rootIdx, phase1Hits>>
                    ELSE /\ phase1Hits' = s.hits
                         /\ findPc' = IF Len(s.hits) > 0 \/ last THEN "after1"
                                      ELSE "phase1"
                         /\ rootIdx' = IF Len(s.hits) > 0 \/ last THEN rootIdx
                                       ELSE rootIdx + 1
    /\ UNCHANGED <<tree, findExt, readdirRev, phase2Hits, findResult>>
    /\ UNCHANGED otherThanFind

\* io.ts:149-156
Phase1Pick ==
    /\ findPc = "after1"
    /\ Len(phase1Hits) > 0
    /\ phase1Hits' = SortHits(1, phase1Hits)
    /\ findResult' = Found(phase1Hits'[1].fp)
    /\ findPc' = "done"
    /\ UNCHANGED <<tree, findExt, readdirRev, rootIdx, phase2Hits>>
    /\ UNCHANGED otherThanFind

\* io.ts:158-179
Phase2Scan ==
    /\ findPc = "after1"
    /\ Len(phase1Hits) = 0
    /\ LET s == Scan(<<[dir |-> << >>, depth |-> 0]>>, phase2Hits, MaxDepth2, findExt)
       IN  IF s.threw
           THEN findPc' = "threw" /\ UNCHANGED phase2Hits
           ELSE findPc' = "after2" /\ phase2Hits' = s.hits
    /\ UNCHANGED <<tree, findExt, readdirRev, rootIdx, phase1Hits, findResult>>
    /\ UNCHANGED otherThanFind

\* io.ts:181-190
Phase2Pick ==
    /\ findPc = "after2"
    /\ IF Len(phase2Hits) = 0
       THEN /\ findResult' = Null
            /\ UNCHANGED phase2Hits
       ELSE /\ phase2Hits' = SortHits(2, phase2Hits)
            /\ findResult' = Found(phase2Hits'[1].fp)
    /\ findPc' = "done"
    /\ UNCHANGED <<tree, findExt, readdirRev, rootIdx, phase1Hits>>
    /\ UNCHANGED otherThanFind

NextFind ==
    \/ Phase1Root
    \/ Phase1Pick
    \/ Phase2Scan
    \/ Phase2Pick

\* --------------------------------------------------------------------- main

\* index.ts:71 and defaults.ts:17: the reference languages, in the order given
REFS == <<"python", "go">>
\* index.ts:72-73: the target languages
TARGETS == <<"zig", "cpp">>

\* index.ts:137-140
FallbackTitles == <<"How do I access the client's TCP connection?",
                    "How do I send a response to the client?">>

\* What a title_markdown of a config.yml can hold: a string, possibly empty,
\* or something that is no string
NotAString == "<not a string>"
TitleValues == {"A", "B", "", NotAString}

MaxTitles == 2

RECURSIVE SeqsUpTo(_, _)
SeqsUpTo(S, n) ==
    IF n = 0 THEN {<< >>}
    ELSE LET shorter == SeqsUpTo(S, n - 1)
         IN  shorter \cup {Append(q, x) : q \in {r \in shorter : Len(r) = n - 1}, x \in S}

\* A reference language's config.yml: absent or unparsable, or the
\* title_markdown of each of its hints
NoConfig == [readable |-> FALSE, titles |-> << >>]
RefConfigs ==
    {NoConfig} \cup {[readable |-> TRUE, titles |-> q] : q \in SeqsUpTo(TitleValues, MaxTitles)}

\* io.ts:442-469
IsNonEmptyString(t) == t # NotAString /\ t # ""
ReadReferenceHintTitles(cfg) ==
    IF ~cfg.readable THEN << >>
    ELSE SelectSeq(cfg.titles, IsNonEmptyString)

\* index.ts:136-140  examples.find((e) => e.hintTitles.length > 0)?.hintTitles || [...]
HasTitles(e) == Len(e.hintTitles) > 0

FixedTitlesOfLast(exs) ==
    IF \E k \in 1..Len(exs) : HasTitles(exs[k])
    THEN exs[CHOOSE k \in 1..Len(exs) :
                 HasTitles(exs[k]) /\ \A j \in (k + 1)..Len(exs) : ~HasTitles(exs[j])].hintTitles
    ELSE FallbackTitles
FixedTitlesOf(exs) ==
    IF \E k \in 1..Len(exs) : HasTitles(exs[k])
    THEN exs[CHOOSE k \in 1..Len(exs) :
                 HasTitles(exs[k]) /\ \A j \in 1..(k - 1) : ~HasTitles(exs[j])].hintTitles
    ELSE FallbackTitles

Reverse(q) == [k \in 1..Len(q) |-> q[Len(q) + 1 - k]]

\* A hint of a backend answer, given by its title_markdown; Undefined when the
\* answer's hint has none
Undefined == "<undefined>"
Hint(title) == [title_markdown |-> title]
HintsOf(titles) == [k \in 1..Len(titles) |-> Hint(titles[k])]

\* What the backend can answer to a hints request that carries `titles`: the
\* hints of these titles, or the titles in another order, one short, one
\* more, one renamed, one without a title, no hint at all, or an object
\* without "hints"
BackendAnswers(titles) ==
    {[hasHints |-> TRUE, hints |-> HintsOf(q)] :
        q \in {titles, Reverse(titles), SubSeq(titles, 1, Len(titles) - 1),
               Append(titles, "X"), [titles EXCEPT ![1] = "X"],
               [titles EXCEPT ![1] = Undefined], << >>}}
    \cup {[hasHints |-> FALSE, hints |-> << >>]}

\* generate.ts:375-376  parsed.hints || []
ParsedHints(answer) == IF answer.hasHints THEN answer.hints ELSE << >>

\* io.ts:291-306: the title written for each hint, h.title_markdown || ""
WrittenTitles(hints) ==
    [k \in 1..Len(hints) |->
        IF hints[k].title_markdown \in {Undefined, ""} THEN ""
        ELSE hints[k].title_markdown]

TargetIds == 1..Len(TARGETS)

IdleMain ==
    /\ refConfigs = << >>
    /\ examples = << >>
    /\ fixedTitles = << >>
    /\ mainPc = "idle"
    /\ langPc = << >>
    /\ promptTitles = << >>
    /\ genHints = << >>
    /\ cfgFile = << >>

InitMainVars ==
    /\ refConfigs \in [1..Len(REFS) -> RefConfigs]
    /\ examples = << >>
    /\ fixedTitles = << >>
    /\ mainPc = "readExamples"
    /\ langPc = [t \in TargetIds |-> "waiting"]
    /\ promptTitles = [t \in TargetIds |-> << >>]
    /\ genHints = [t \in TargetIds |-> << >>]
    /\ cfgFile = [t \in TargetIds |-> [written |-> FALSE, titles |-> << >>]]

\* index.ts:100-134
ReadReferenceExamples ==
    /\ mainPc = "readExamples"
    /\ examples' = [k \in 1..Len(REFS) |->
                       [language |-> REFS[k],
                        hintTitles |-> ReadReferenceHintTitles(refConfigs[k])]]
    /\ mainPc' = "fixTitles"
    /\ UNCHANGED <<refConfigs, fixedTitles, langPc, promptTitles, genHints, cfgFile>>
    /\ UNCHANGED otherThanMain

\* index.ts:136-155
ChooseFixedTitles ==
    /\ mainPc = "fixTitles"
    /\ fixedTitles' = FixedTitlesOf(examples)
    /\ mainPc' = "running"
    /\ langPc' = [t \in TargetIds |-> "generate"]
    /\ UNCHANGED <<refConfigs, examples, promptTitles, genHints, cfgFile>>
    /\ UNCHANGED otherThanMain

\* index.ts:164-203: the language task of target t generates the solution and
\* the hints; the hints request carries the fixed titles (generate.ts:342-343)
\* and the backend answers
LangGenerate(t, answer) ==
    /\ mainPc \in {"running", "exiting"}
    /\ langPc[t] = "generate"
    /\ promptTitles' = [promptTitles EXCEPT ![t] = fixedTitles]
    /\ genHints' = [genHints EXCEPT ![t] = ParsedHints(answer)]
    /\ langPc' = [langPc EXCEPT ![t] = "writeSolution"]
    /\ UNCHANGED <<refConfigs, examples, fixedTitles, mainPc, cfgFile>>
    /\ UNCHANGED otherThanMain

\* index.ts:164-193 and 238-240: a generation call of target t fails; the
\* language task rejects and so does the pool
LangGenerateFails(t) ==
    /\ mainPc \in {"running", "exiting"}
    /\ langPc[t] = "generate"
    /\ promptTitles' = [promptTitles EXCEPT ![t] = fixedTitles]
    /\ langPc' = [langPc EXCEPT ![t] = "failed"]
    /\ mainPc' = "exiting"
    /\ UNCHANGED <<refConfigs, examples, fixedTitles, genHints, cfgFile>>
    /\ UNCHANGED otherThanMain

\* index.ts:205-219
LangWriteSolution(t) ==
    /\ mainPc \in {"running", "exiting"}
    /\ langPc[t] = "writeSolution"
    /\ langPc' = [langPc EXCEPT ![t] = "writeHints"]
    /\ UNCHANGED <<refConfigs, examples, fixedTitles, mainPc, promptTitles, genHints, cfgFile>>
    /\ UNCHANGED otherThanMain

\* index.ts:221-236 and io.ts:276-314
LangWriteHints(t) ==
    /\ mainPc \in {"running", "exiting"}
    /\ langPc[t] = "writeHints"
    /\ cfgFile' = [cfgFile EXCEPT ![t] =
                      [written |-> TRUE, titles |-> WrittenTitles(genHints[t])]]
    /\ langPc' = [langPc EXCEPT ![t] = "done"]
    /\ UNCHANGED <<refConfigs, examples, fixedTitles, mainPc, promptTitles, genHints>>
    /\ UNCHANGED otherThanMain

\* index.ts:238-243: every language task is done; the summary is printed
MainSummary ==
    /\ mainPc = "running"
    /\ \A t \in TargetIds : langPc[t] = "done"
    /\ mainPc' = "exited0"
    /\ UNCHANGED <<refConfigs, examples, fixedTitles, langPc, promptTitles, genHints, cfgFile>>
    /\ UNCHANGED otherThanMain

\* index.ts:245-249: the error is printed and the process exits
MainExit1 ==
    /\ mainPc = "exiting"
    /\ mainPc' = "exited1"
    /\ UNCHANGED <<refConfigs, examples, fixedTitles, langPc, promptTitles, genHints, cfgFile>>
    /\ UNCHANGED otherThanMain

NextMain ==
    \/ ReadReferenceExamples
    \/ ChooseFixedTitles
    \/ \E t \in TargetIds : \E answer \in BackendAnswers(fixedTitles) : LangGenerate(t, answer)
    \/ \E t \in TargetIds : LangGenerateFails(t)
    \/ \E t \in TargetIds : LangWriteSolution(t)
    \/ \E t \in TargetIds : LangWriteHints(t)
    \/ MainSummary
    \/ MainExit1

\* ------------------------------------------------- the hints file, config.yml

Quote == "\""
Backslash == "\\"
Newline == "\n"
Space == " "

RECURSIVE Spaces(_)
Spaces(n) == IF n = 0 THEN << >> ELSE <<Space>> \o Spaces(n - 1)

\* String.prototype.split("\n"): the pieces between the newlines
RECURSIVE SplitLines(_, _, _)
SplitLines(str, cur, acc) ==
    IF str = << >> THEN Append(acc, cur)
    ELSE IF Head(str) = Newline THEN SplitLines(Tail(str), << >>, Append(acc, cur))
    ELSE SplitLines(Tail(str), Append(cur, Head(str)), acc)

\* Array.prototype.join("\n")
RECURSIVE JoinLines(_)
JoinLines(lines) ==
    IF lines = << >> THEN << >>
    ELSE IF Len(lines) = 1 THEN lines[1]
    ELSE lines[1] \o <<Newline>> \o JoinLines(Tail(lines))

\* JSON.stringify of a string
RECURSIVE JsonEscape(_)
JsonEscape(str) ==
    IF str = << >> THEN << >>
    ELSE LET c == Head(str)
             e == IF c = Quote THEN <<Backslash, Quote>>
                  ELSE IF c = Backslash THEN <<Backslash, Backslash>>
                  ELSE IF c = Newline THEN <<Backslash, "n">>
                  ELSE <<c>>
         IN  e \o JsonEscape(Tail(str))

JsonStringify(str) == <<Quote>> \o JsonEscape(str) \o <<Quote>>

\* The lines writeTargetHints builds for one hint (io.ts:295-304); a line is
\* its fixed prefix (kind) and the characters that follow it
IndentBody(h) ==
    LET lines == SplitLines(h.body_markdown, << >>, << >>)
    IN  [k \in 1..Len(lines) |-> [kind |-> "text", chars |-> Spaces(6) \o lines[k]]]

HintLines(h) ==
    <<[kind |-> "title", chars |-> JsonStringify(h.title_markdown)],
      [kind |-> "bodyKey", chars |-> << >>]>> \o IndentBody(h)

RECURSIVE AllHintLines(_)
AllHintLines(hints) ==
    IF hints = << >> THEN << >>
    ELSE HintLines(Head(hints)) \o AllHintLines(Tail(hints))

\* io.ts:291-306: txt.  With no hint the text is "hints:\n\n".
HintsText(hints) ==
    <<[kind |-> "hintsKey", chars |-> << >>]>> \o
    (IF hints = << >> THEN <<[kind |-> "text", chars |-> << >>]>>
     ELSE AllHintLines(hints))

\* ---- YAML.parse, for the documents HintsText builds (io.ts:487)

RECURSIVE LeadingSpaces(_)
LeadingSpaces(line) ==
    IF line = << >> \/ Head(line) # Space THEN 0
    ELSE 1 + LeadingSpaces(Tail(line))

IsBlank(line) == LeadingSpaces(line) = Len(line)

\* A double-quoted scalar: the text between the quotes with its escapes
\* resolved; ok = FALSE for text that is no double-quoted scalar
RECURSIVE YamlUnescape(_, _)
YamlUnescape(str, acc) ==
    IF str = << >> THEN [ok |-> TRUE, value |-> acc]
    ELSE IF Head(str) = Quote THEN [ok |-> FALSE, value |-> << >>]
    ELSE IF Head(str) # Backslash THEN YamlUnescape(Tail(str), Append(acc, Head(str)))
    ELSE IF Len(str) < 2 THEN [ok |-> FALSE, value |-> << >>]
    ELSE LET c == str[2]
             rest == SubSeq(str, 3, Len(str))
         IN  IF c = "n" THEN YamlUnescape(rest, Append(acc, Newline))
             ELSE IF c \in {Quote, Backslash} THEN YamlUnescape(rest, Append(acc, c))
             ELSE [ok |-> FALSE, value |-> << >>]

YamlDoubleQuoted(chars) ==
    IF Len(chars) < 2 \/ chars[1] # Quote \/ chars[Len(chars)] # Quote
    THEN [ok |-> FALSE, value |-> << >>]
    ELSE YamlUnescape(SubSeq(chars, 2, Len(chars) - 1), << >>)

RECURSIVE StripTrailingNewlines(_)
StripTrailingNewlines(str) ==
    IF str # << >> /\ str[Len(str)] = Newline
    THEN StripTrailingNewlines(SubSeq(str, 1, Len(str) - 1))
    ELSE str

\* A literal block scalar with the chomping indicator "-" and no indentation
\* indicator.  Its indentation is that of its first line that is not blank;
\* a blank line before it with more spaces, or a later line with fewer, is an
\* error; the trailing line breaks and empty lines are dropped.
BlockScalarStrip(lines) ==
    LET nonBlank == {k \in 1..Len(lines) : ~IsBlank(lines[k])}
    IN  IF nonBlank = {} THEN [ok |-> TRUE, value |-> << >>]
        ELSE LET first == CHOOSE k \in nonBlank : \A j \in nonBlank : k <= j
                 d == LeadingSpaces(lines[first])
                 bad == \E k \in 1..Len(lines) :
                            \/ k < first /\ Len(lines[k]) > d
                            \/ k \in nonBlank /\ LeadingSpaces(lines[k]) < d
                 content == [k \in 1..Len(lines) |->
                                IF Len(lines[k]) <= d THEN << >>
                                ELSE SubSeq(lines[k], d + 1, Len(lines[k]))]
             IN  IF bad THEN [ok |-> FALSE, value |-> << >>]
                 ELSE [ok |-> TRUE, value |-> StripTrailingNewlines(JoinLines(content))]

\* How many lines of the block scalar follow from position k on
RECURSIVE TextRun(_, _)
TextRun(lines, k) ==
    IF k > Len(lines) \/ lines[k].kind # "text" THEN 0
    ELSE 1 + TextRun(lines, k + 1)

RECURSIVE ParseEntries(_, _)
ParseEntries(lines, acc) ==
    IF lines = << >> THEN [ok |-> TRUE, isArray |-> TRUE, hints |-> acc]
    ELSE IF Len(lines) < 2 \/ lines[1].kind # "title" \/ lines[2].kind # "bodyKey"
    THEN [ok |-> FALSE, isArray |-> FALSE, hints |-> << >>]
    ELSE LET n == TextRun(lines, 3)
             t == YamlDoubleQuoted(lines[1].chars)
             b == BlockScalarStrip([k \in 1..n |-> lines[2 + k].chars])
         IN  IF ~t.ok \/ ~b.ok THEN [ok |-> FALSE, isArray |-> FALSE, hints |-> << >>]
             ELSE ParseEntries(SubSeq(lines, 3 + n, Len(lines)),
                      Append(acc, [title_markdown |-> t.value, body_markdown |-> b.value]))

\* YAML.parse(raw): ok = FALSE when it throws; `hints:` with nothing below
\* it is null, not an array
YamlParse(lines) ==
    IF lines = << >> \/ lines[1].kind # "hintsKey"
    THEN [ok |-> FALSE, isArray |-> FALSE, hints |-> << >>]
    ELSE IF \A k \in 2..Len(lines) : lines[k].kind = "text" /\ IsBlank(lines[k].chars)
    THEN [ok |-> TRUE, isArray |-> FALSE, hints |-> << >>]
    ELSE ParseEntries(Tail(lines), << >>)

\* io.ts:471-495
ReadReferenceHints(file) ==
    IF ~file.exists THEN << >>
    ELSE LET parsed == YamlParse(file.lines)
         IN  IF ~parsed.ok \/ ~parsed.isArray THEN << >>
             ELSE parsed.hints

\* ---- the hint lists written

MaxBodyLen == 3
BodyChars == {Quote, Space, Newline}
TitleTexts == {<< >>, <<Quote, "t", Newline>>, <<Backslash, "n">>}

RECURSIVE StringsUpTo(_, _)
StringsUpTo(chars, n) ==
    IF n = 0 THEN {<< >>}
    ELSE LET shorter == StringsUpTo(chars, n - 1)
         IN  shorter \cup {Append(str, c) : str \in shorter, c \in chars}

HintValues ==
    {[title_markdown |-> t, body_markdown |-> b] :
        t \in TitleTexts, b \in StringsUpTo(BodyChars, MaxBodyLen)}

\* Lists of no, one and two hints
HintLists ==
    {<< >>} \cup {<<h>> : h \in HintValues} \cup {<<h, g>> : h, g \in HintValues}

NoFile == [exists |-> FALSE, lines |-> << >>]

IdleHints ==
    /\ hintsIn = << >>
    /\ hintsDry = FALSE
    /\ hintsFile = NoFile
    /\ hintsOut = << >>
    /\ hintsPc = "idle"

InitHintsVars ==
    /\ hintsIn \in HintLists
    /\ hintsDry \in BOOLEAN
    /\ hintsFile = NoFile
    /\ hintsOut = << >>
    /\ hintsPc = "start"

\* io.ts:276-314
WriteTargetHints ==
    /\ hintsPc = "start"
    /\ hintsFile' = IF hintsDry THEN hintsFile
                    ELSE [exists |-> TRUE, lines |-> HintsText(hintsIn)]
    /\ hintsPc' = "written"
    /\ UNCHANGED <<hintsIn, hintsDry, hintsOut>>
    /\ UNCHANGED otherThanHints

\* io.ts:471-495
ReadHintsBack ==
    /\ hintsPc = "written"
    /\ hintsOut' = ReadReferenceHints(hintsFile)
    /\ hintsPc' = "read"
    /\ UNCHANGED <<hintsIn, hintsDry, hintsFile>>
    /\ UNCHANGED otherThanHints

NextHints ==
    \/ WriteTargetHints
    \/ ReadHintsBack

\* ------------------------------------------------------------------ parseCLI

\* A command-line token is the sequence of its lexemes; "--" is the lexeme a
\* flag starts with.
Flag(name) == <<"--", name>>

StartsWithDashes(tok) == tok # << >> /\ tok[1] = "--"

Unset == [set |-> FALSE, v |-> << >>]
Some(v) == [set |-> TRUE, v |-> v]

\* cli.ts:3-6
Take(args, i) ==
    IF i + 1 <= Len(args) /\ ~StartsWithDashes(args[i + 1])
    THEN Some(args[i + 1])
    ELSE Unset

\* `if (v)`: v is a string and not the empty one
Truthy(v) == v.set /\ v.v # << >>

\* v.split(",")
RECURSIVE SplitCsv(_, _, _)
SplitCsv(str, cur, acc) ==
    IF str = << >> THEN Append(acc, cur)
    ELSE IF Head(str) = "," THEN SplitCsv(Tail(str), << >>, Append(acc, cur))
    ELSE SplitCsv(Tail(str), Append(cur, Head(str)), acc)

\* s.trim()
RECURSIVE Trim(_)
Trim(str) ==
    IF str # << >> /\ Head(str) = " " THEN Trim(Tail(str))
    ELSE IF str # << >> /\ str[Len(str)] = " " THEN Trim(SubSeq(str, 1, Len(str) - 1))
    ELSE str

\* .filter(Boolean)
RECURSIVE FilterNonEmpty(_)
FilterNonEmpty(items) ==
    IF items = << >> THEN << >>
    ELSE IF Head(items) = << >> THEN FilterNonEmpty(Tail(items))
    ELSE <<Head(items)>> \o FilterNonEmpty(Tail(items))

\* cli.ts:44-47 and 54-57
CsvList(v) ==
    LET pieces == SplitCsv(v, << >>, << >>)
    IN  FilterNonEmpty([k \in 1..Len(pieces) |-> Trim(pieces[k])])

\* cli.ts:9; langConcurrency and taskConcurrency are the properties main reads
\* (index.ts:89-90)
EmptyOpts ==
    [projectRoot |-> Unset, challengeSlug |-> Unset, stageId |-> Unset,
     stageKind |-> Unset, refs |-> Unset, targets |-> Unset, model |-> Unset,
     langConcurrency |-> Unset, taskConcurrency |-> Unset]

\* cli.ts:67-70: where the loop goes on after a token that is no flag of the
\* switch
AfterUnknownSkipsNext(i) == i + 2
AfterUnknown(i) == i + 1

\* cli.ts:18 with the `i++` of the loop (cli.ts:11), with a flag that leaves a
\* following "--" token to be parsed
AfterFlagKeepsDashes(args, i) ==
    IF i + 1 <= Len(args) /\ StartsWithDashes(args[i + 1]) THEN i + 1 ELSE i + 2

\* cli.ts:18, 24, 30, 38, 48, 58, 64 with the `i++` of the loop (cli.ts:11):
\* where the loop goes on after a flag of the switch
AfterFlag(args, i) == i + 2

\* cli.ts:11-72, from position i on
RECURSIVE ParseFrom(_, _, _)
ParseFrom(args, i, opts) ==
    IF i > Len(args) THEN opts
    ELSE LET a == args[i]
             v == Take(args, i)
         IN  IF a = Flag("project-root")
             THEN ParseFrom(args, AfterFlag(args, i),
                      IF Truthy(v) THEN [opts EXCEPT !.projectRoot = v] ELSE opts)
             ELSE IF a = Flag("challenge-slug")
             THEN ParseFrom(args, AfterFlag(args, i),
                      IF Truthy(v) THEN [opts EXCEPT !.challengeSlug = v] ELSE opts)
             ELSE IF a = Flag("stage-id")
             THEN ParseFrom(args, AfterFlag(args, i),
                      IF Truthy(v) THEN [opts EXCEPT !.stageId = v] ELSE opts)
             ELSE IF a = Flag("stage-kind")
             THEN ParseFrom(args, AfterFlag(args, i),
                      IF v.set /\ v.v \in {<<"base">>, <<"localized">>}
                      THEN [opts EXCEPT !.stageKind = v] ELSE opts)
             ELSE IF a = Flag("refs")
             THEN ParseFrom(args, AfterFlag(args, i),
                      IF Truthy(v) THEN [opts EXCEPT !.refs = Some(CsvList(v.v))]
                      ELSE opts)
             ELSE IF a = Flag("targets")
             THEN ParseFrom(args, AfterFlag(args, i),
                      IF Truthy(v) THEN [opts EXCEPT !.targets = Some(CsvList(v.v))]
                      ELSE opts)
             ELSE IF a = Flag("model")
             THEN ParseFrom(args, AfterFlag(args, i),
                      IF Truthy(v) THEN [opts EXCEPT !.model = v] ELSE opts)
             ELSE ParseFrom(args, AfterUnknown(i), opts)

\* cli.ts:8-75
ParseCLI(args) == ParseFrom(args, 1, EmptyOpts)

\* ---- the concurrency settings of main

\* STAGEGEN_LANG_CONCURRENCY / STAGEGEN_TASK_CONCURRENCY: not set, or a text
EnvValues == {Unset, Some(<<"1">>), Some(<<"3">>), Some(<<"abc">>), Some(<< >>)}

\* Number(text)
Digits == <<"0", "1", "2", "3", "4", "5", "6", "7", "8", "9">>
ToNumber(text) ==
    IF text = << >> THEN Num(0)
    ELSE IF Len(text) = 1 /\ IndexOf(Digits, text[1]) > 0
    THEN Num(IndexOf(Digits, text[1]) - 1)
    ELSE NaN

\* defaults: Number(process.env.STAGEGEN_LANG_CONCURRENCY || 30)
DefaultLangConcurrency(env) == IF Truthy(env) THEN ToNumber(env.v) ELSE Num(30)
DefaultTaskConcurrency(env) == IF Truthy(env) THEN ToNumber(env.v) ELSE Num(2)

\* index.ts:89-90: cli.langConcurrency ?? DEFAULT_LANG_CONCURRENCY
LangConcOf(opts, env) ==
    IF opts.langConcurrency.set THEN opts.langConcurrency.v
    ELSE DefaultLangConcurrency(env)
TaskConcOf(opts, env) ==
    IF opts.taskConcurrency.set THEN opts.taskConcurrency.v
    ELSE DefaultTaskConcurrency(env)

\* Math.max
MathMax(a, b) ==
    IF a.nan \/ b.nan THEN NaN
    ELSE IF a.v >= b.v THEN a ELSE b

\* index.ts:164: the limit of the pool of one language
InnerLimit(tc) == MathMax(Num(1), MathMin(Num(2), tc))

\* ---- the command lines parsed

MaxArgs == 3

CliTokens ==
    {Flag("targets"), Flag("refs"), Flag("model"), Flag("stage-kind"),
     Flag("foo"), Flag("lang-concurrency"), Flag("task-concurrency"),
     <<"zig", ",", " ", "zig">>, <<"base">>, <<"1">>, << >>, <<"go">>}

IdleCli ==
    /\ argv = << >>
    /\ envLang = Unset
    /\ envTask = Unset
    /\ cliOpts = EmptyOpts
    /\ langConc = Num(0)
    /\ taskConc = Num(0)
    /\ cliPc = "idle"

InitCliVars ==
    /\ argv \in SeqsUpTo(CliTokens, MaxArgs)
    /\ envLang = Unset
    /\ envTask = Unset
    /\ cliOpts = EmptyOpts
    /\ langConc = Num(0)
    /\ taskConc = Num(0)
    /\ cliPc = "start"

\* index.ts:64: parseCLI(process.argv.slice(2))
ParseArgv ==
    /\ cliPc = "start"
    /\ cliOpts' = ParseCLI(argv)
    /\ cliPc' = "parsed"
    /\ UNCHANGED <<argv, envLang, envTask, langConc, taskConc>>
    /\ UNCHANGED otherThanCli

\* index.ts:89-90, with the environment the defaults were read from
ReadConcurrency(el, et) ==
    /\ cliPc = "parsed"
    /\ envLang' = el
    /\ envTask' = et
    /\ langConc' = LangConcOf(cliOpts, el)
    /\ taskConc' = TaskConcOf(cliOpts, et)
    /\ cliPc' = "configured"
    /\ UNCHANGED <<argv, cliOpts>>
    /\ UNCHANGED otherThanCli

NextCli ==
    \/ ParseArgv
    \/ \E el, et \in EnvValues : ReadConcurrency(el, et)

\* ---- longer command lines over the flags with a value

MaxFlagArgs == 4

FlagTokens ==
    {Flag("model"), Flag("targets"), Flag("stage-kind"), Flag("foo"),
     <<"go">>, <<"zig">>, <<"base">>, <<",">>, << >>}

InitCliFlagsVars ==
    /\ argv \in SeqsUpTo(FlagTokens, MaxFlagArgs)
    /\ envLang = Unset
    /\ envTask = Unset
    /\ cliOpts = EmptyOpts
    /\ langConc = Num(0)
    /\ taskConc = Num(0)
    /\ cliPc = "start"

NextCliFlags == ParseArgv

\* ---------------------------------------------------- prepareSolutionCodeDir

\* An entry of a directory: its path below the directory, its kind and, for
\* a file, whose content it holds
FsFile(path, content) == [path |-> path, kind |-> "file", content |-> content]
FsDir(path) == [path |-> path, kind |-> "dir", content |-> "-"]

NoDirectory == [exists |-> FALSE, entries |-> {}]
Directory(entries) == [exists |-> TRUE, entries |-> entries]

\* Every entry lies in a directory of the set
Closed(entries) ==
    \A e \in entries :
        Len(e.path) > 1 =>
            FsDir(SubSeq(e.path, 1, Len(e.path) - 1)) \in entries

StarterEntries ==
    {FsFile(<<"main">>, "starter"), FsFile(<<"README">>, "starter"),
     FsDir(<<"src">>), FsFile(<<"src", "main">>, "starter"), FsDir(<<"empty">>)}

OldEntries ==
    {FsFile(<<"main">>, "old"), FsFile(<<"stale">>, "old"),
     FsDir(<<"src">>), FsFile(<<"src", "stale">>, "old"), FsDir(<<"main">>)}

UniquePaths(entries) ==
    \A e, f \in entries : e.path = f.path => e = f

StarterDirs ==
    {NoDirectory} \cup {Directory(es) : es \in {s \in SUBSET StarterEntries : Closed(s)}}

CodeDirs ==
    {NoDirectory} \cup
    {Directory(es) : es \in {s \in SUBSET OldEntries : Closed(s) /\ UniquePaths(s)}}

\* io.ts:57-59: fs.rm(dir, { recursive: true, force: true })
RmrfKeepsContents(dir) == dir
Rmrf(dir) == NoDirectory

\* io.ts:53-55: fs.mkdir(dir, { recursive: true }) of an existing or a
\* missing directory
EnsureDir(dir) == IF dir.exists THEN dir ELSE Directory({})

\* Writing entry e into a directory: an entry of the same path is replaced
PutEntry(dir, e) ==
    Directory({f \in dir.entries : f.path # e.path} \cup {e})

RECURSIVE PutAll(_, _)
PutAll(dir, entries) ==
    IF entries = {} THEN dir
    ELSE LET e == CHOOSE x \in entries : TRUE
         IN  PutAll(PutEntry(dir, e), entries \ {e})

\* io.ts:65-66: fs.cp(src, dst, { recursive: true, force: true })
FsCp(src, dst) == PutAll(EnsureDir(dst), src.entries)

\* io.ts:68-79: the copy by hand, for the directory `at` of src
RECURSIVE CopyDirByHand(_, _, _)
CopyDirByHand(src, at, dst) ==
    LET made == IF at = << >> THEN EnsureDir(dst)
                ELSE PutEntry(EnsureDir(dst), FsDir(at))
        here == {e \in src.entries :
                    Len(e.path) = Len(at) + 1 /\ SubSeq(e.path, 1, Len(at)) = at}
        files == {e \in here : e.kind = "file"}
        dirs == {e \in here : e.kind = "dir"}
        RECURSIVE Sub(_, _)
        Sub(ds, acc) ==
            IF ds = {} THEN acc
            ELSE LET d == CHOOSE x \in ds : TRUE
                 IN  Sub(ds \ {d}, CopyDirByHand(src, d.path, acc))
    IN  Sub(dirs, PutAll(made, files))

\* io.ts:61-80
CopyDir(cp, src, dst) ==
    IF cp THEN FsCp(src, dst) ELSE CopyDirByHand(src, << >>, dst)

IdlePrep ==
    /\ starter = NoDirectory
    /\ codeDir = NoDirectory
    /\ codeDir0 = NoDirectory
    /\ codeParent = FALSE
    /\ hasCp = TRUE
    /\ prepPc = "idle"

InitPrepVars ==
    /\ starter \in StarterDirs
    /\ codeDir \in CodeDirs
    /\ codeDir0 = codeDir
    /\ codeParent \in {b \in BOOLEAN : codeDir.exists => b}
    /\ hasCp \in BOOLEAN
    /\ prepPc = "check"

\* io.ts:225-228
PrepareCheck ==
    /\ prepPc = "check"
    /\ prepPc' = IF starter.exists THEN "rm" ELSE "threw"
    /\ UNCHANGED <<starter, codeDir, codeDir0, codeParent, hasCp>>
    /\ UNCHANGED otherThanPrep

\* io.ts:231
PrepareRm ==
    /\ prepPc = "rm"
    /\ codeDir' = Rmrf(codeDir)
    /\ prepPc' = "mkdir"
    /\ UNCHANGED <<starter, codeDir0, codeParent, hasCp>>
    /\ UNCHANGED otherThanPrep

\* io.ts:232
PrepareMkdir ==
    /\ prepPc = "mkdir"
    /\ codeParent' = TRUE
    /\ prepPc' = "copy"
    /\ UNCHANGED <<starter, codeDir, codeDir0, hasCp>>
    /\ UNCHANGED otherThanPrep

\* io.ts:233-235
PrepareCopy ==
    /\ prepPc = "copy"
    /\ codeDir' = CopyDir(hasCp, starter, codeDir)
    /\ prepPc' = "done"
    /\ UNCHANGED <<starter, codeDir0, codeParent, hasCp>>
    /\ UNCHANGED otherThanPrep

NextPrep ==
    \/ PrepareCheck
    \/ PrepareRm
    \/ PrepareMkdir
    \/ PrepareCopy

\* ------------------------------------------------------- the logger's queue

MaxCallers == 2
MaxLogCalls == 4

Callers == 1..MaxCallers
LogLines == {"line a", "line b"}

\* logger.ts:13: chain = chain.then(...), the callbacks run in the order they
\* were chained
EnqueueFirst(q, k) == <<k>> \o q
Enqueue(q, k) == Append(q, k)

\* logger.ts:16: line + "\n"
Chunk(line) == <<line, "\n">>

IdleLog ==
    /\ logCalls = << >>
    /\ chain = << >>
    /\ stdout = << >>
    /\ logAwait = << >>
    /\ logResolved = {}

InitLogVars ==
    /\ logCalls = << >>
    /\ chain = << >>
    /\ stdout = << >>
    /\ logAwait = [t \in Callers |-> 0]
    /\ logResolved = {}

\* logger.ts:12-20, up to the await: a task calls write(line)
WriteCall(t, line) ==
    /\ logAwait # << >>
    /\ logAwait[t] = 0
    /\ Len(logCalls) < MaxLogCalls
    /\ logCalls' = Append(logCalls, line)
    /\ chain' = Enqueue(chain, Len(logCalls) + 1)
    /\ logAwait' = [logAwait EXCEPT ![t] = Len(logCalls) + 1]
    /\ UNCHANGED <<stdout, logResolved>>
    /\ UNCHANGED otherThanLog

\* logger.ts:14-18: the callback of the oldest pending link of the chain runs
ChainWrite ==
    /\ chain # << >>
    /\ stdout' = Append(stdout, [call |-> Head(chain), chunk |-> Chunk(logCalls[Head(chain)])])
    /\ chain' = Tail(chain)
    /\ UNCHANGED <<logCalls, logAwait, logResolved>>
    /\ UNCHANGED otherThanLog

\* logger.ts:20: `await chain` returns once the link of this call is settled
WriteReturn(t) ==
    /\ logAwait # << >>
    /\ logAwait[t] # 0
    /\ \E k \in 1..Len(stdout) : stdout[k].call = logAwait[t]
    /\ logResolved' = logResolved \cup {logAwait[t]}
    /\ logAwait' = [logAwait EXCEPT ![t] = 0]
    /\ UNCHANGED <<logCalls, chain, stdout>>
    /\ UNCHANGED otherThanLog

NextLog ==
    \/ \E t \in Callers, line \in LogLines : WriteCall(t, line)
    \/ ChainWrite
    \/ \E t \in Callers : WriteReturn(t)

\* ------------------------------------------------------- one run of the program

NoExit == -1

\* The most entries of TARGETS in the runs that are checked
MaxTargets == 2

Zig == <<"zig">>
Cpp == <<"cpp">>

\* defaults: DEFAULTS.refs and DEFAULTS.targets
DefaultRefs == <<<<"python">>, <<"go">>, <<"rust">>>>
DefaultTargets == << >>

\* A directory entry of challenges/<slug>/solutions
SolEntry(name, isDir) == [name |-> name, isDirectory |-> isDir]

\* The states of challenges/<slug>/solutions the run is checked for
SolutionsListings ==
    {[readable |-> FALSE, entries |-> << >>],
     [readable |-> TRUE, entries |-> <<SolEntry(<<"python">>, TRUE)>>],
     [readable |-> TRUE,
      entries |-> <<SolEntry(<<".", "git">>, TRUE), SolEntry(Zig, TRUE),
                    SolEntry(<<"notes">>, FALSE), SolEntry(<<"python">>, TRUE)>>],
     [readable |-> TRUE,
      entries |-> <<SolEntry(Cpp, TRUE), SolEntry(<<"go">>, TRUE),
                    SolEntry(Zig, TRUE), SolEntry(<<".", "DS_Store">>, FALSE)>>]}

\* The command lines the run is checked for
RunArgvs ==
    {<< >>,
     <<Flag("targets"), <<"zig">>>>,
     <<Flag("targets"), <<"zig", ",", "zig">>>>,
     <<Flag("targets"), <<"zig", ",", " ", "cpp">>>>,
     <<Flag("targets"), <<",">>>>}

LangLimits == {Num(1), Num(30), NaN}

RECURSIVE SelectEntries(_, _)
SelectEntries(entries, hiddenToo) ==
    IF entries = << >> THEN << >>
    ELSE LET e == Head(entries)
             rest == SelectEntries(Tail(entries), hiddenToo)
         IN  IF e.isDirectory /\ (hiddenToo \/ e.name[1] # ".")
             THEN <<e.name>> \o rest
             ELSE rest

\* io.ts:11-26
ListChallengeLanguagesWithHidden(sol) ==
    IF ~sol.readable THEN << >> ELSE SelectEntries(sol.entries, TRUE)
ListChallengeLanguages(sol) ==
    IF ~sol.readable THEN << >> ELSE SelectEntries(sol.entries, FALSE)

\* index.ts:77: TARGETS.filter((t) => !REFS.includes(t))
RECURSIVE WithoutRefs(_, _)
WithoutRefs(langs, refs) ==
    IF langs = << >> THEN << >>
    ELSE IF IndexOf(refs, Head(langs)) > 0 THEN WithoutRefs(Tail(langs), refs)
    ELSE <<Head(langs)>> \o WithoutRefs(Tail(langs), refs)

\* index.ts:71: REFS
RefsOf(opts) ==
    IF opts.refs.set /\ Len(opts.refs.v) > 0 THEN opts.refs.v ELSE DefaultRefs

\* index.ts:72-78: TARGETS
TargetsOf(opts, sol) ==
    LET given == IF opts.targets.set /\ Len(opts.targets.v) > 0
                 THEN opts.targets.v ELSE DefaultTargets
    IN  IF Len(given) > 0 THEN given
        ELSE WithoutRefs(ListChallengeLanguages(sol), RefsOf(opts))

\* openai.ts: if (!process.env.OPENAI_API_KEY)
KeyNeverMissing(env) == FALSE
KeyMissing(env) == ~env.apiKey

IdleRun ==
    /\ rEnv = [apiKey |-> TRUE, dry |-> FALSE]
    /\ rArgv = << >>
    /\ rLimit = Num(1)
    /\ rSolutions = [readable |-> FALSE, entries |-> << >>]
    /\ rStarters = {}
    /\ rStageDesc = FALSE
    /\ rTargets = << >>
    /\ rPc = "idle"
    /\ rTasks = << >>
    /\ rNext = 0
    /\ rRejected = FALSE
    /\ rReads = FALSE
    /\ rCalls = {}
    /\ rGenerated = {}
    /\ rOps = {}
    /\ rPrinted = ""
    /\ rExit = NoExit

InitRunVars ==
    /\ rEnv \in [apiKey : BOOLEAN, dry : BOOLEAN]
    /\ rArgv \in RunArgvs
    /\ rLimit \in LangLimits
    /\ rSolutions \in SolutionsListings
    /\ rStarters \in SUBSET {Zig, Cpp}
    /\ rStageDesc \in BOOLEAN
    /\ rTargets = << >>
    /\ rPc = "load"
    /\ rTasks = << >>
    /\ rNext = 0
    /\ rRejected = FALSE
    /\ rReads = FALSE
    /\ rCalls = {}
    /\ rGenerated = {}
    /\ rOps = {}
    /\ rPrinted = ""
    /\ rExit = NoExit

\* The steps of a language task that is between its claim and its end
RunningPcs == {"prev", "generate", "prepare", "rm", "mkdir", "copy", "write", "hints"}

\* The steps in which a language task mutates its output directory
FsPcs == {"rm", "mkdir", "copy", "write", "hints"}

Op(i, op) == [task |-> i, lang |-> rTargets[i], op |-> op]

\* index.ts:48-54: a worker whose task has ended takes the next index
WorkerNext(tasks, i, nxt) ==
    IF nxt < Len(tasks)
    THEN [tasks EXCEPT ![i] = "done", ![nxt + 1] = "prev"]
    ELSE [tasks EXCEPT ![i] = "done"]

\* openai.ts: the modules are loaded, before main is called
LoadModules ==
    /\ rPc = "load"
    /\ IF KeyMissing(rEnv)
       THEN /\ rPrinted' = "key"
            /\ rExit' = 2
            /\ rPc' = "exited"
       ELSE /\ rPc' = "start"
            /\ UNCHANGED <<rPrinted, rExit>>
    /\ UNCHANGED <<rEnv, rArgv, rLimit, rSolutions, rStarters, rStageDesc, rTargets,
                   rTasks, rNext, rRejected, rReads, rCalls, rGenerated, rOps>>
    /\ UNCHANGED otherThanRun

\* index.ts:64-85
ResolveTargets ==
    /\ rPc = "start"
    /\ LET t == TargetsOf(ParseCLI(rArgv), rSolutions)
       IN  /\ rTargets' = t
           /\ IF Len(t) = 0
              THEN rPc' = "rejected" /\ rRejected' = TRUE
              ELSE rPc' = "resolved" /\ UNCHANGED rRejected
    /\ UNCHANGED <<rEnv, rArgv, rLimit, rSolutions, rStarters, rStageDesc,
                   rTasks, rNext, rReads, rCalls, rGenerated, rOps, rPrinted, rExit>>
    /\ UNCHANGED otherThanRun

\* index.ts:94-98 with a missing stage description taken as an empty one
ReadStageGoesOn ==
    /\ rPc = "resolved"
    /\ rReads' = TRUE
    /\ rPc' = "described"
    /\ UNCHANGED <<rEnv, rArgv, rLimit, rSolutions, rStarters, rStageDesc, rTargets,
                   rTasks, rNext, rCalls, rGenerated, rOps, rPrinted, rExit, rRejected>>
    /\ UNCHANGED otherThanRun

\* index.ts:94-98 with io.ts:316-363
ReadStage ==
    /\ rPc = "resolved"
    /\ rReads' = TRUE
    /\ IF rStageDesc
       THEN rPc' = "described" /\ UNCHANGED rRejected
       ELSE rPc' = "rejected" /\ rRejected' = TRUE
    /\ UNCHANGED <<rEnv, rArgv, rLimit, rSolutions, rStarters, rStageDesc, rTargets,
                   rTasks, rNext, rCalls, rGenerated, rOps, rPrinted, rExit>>
    /\ UNCHANGED otherThanRun

\* index.ts:100-153
ReadExamples ==
    /\ rPc = "described"
    /\ rPc' = "ready"
    /\ UNCHANGED <<rEnv, rArgv, rLimit, rSolutions, rStarters, rStageDesc, rTargets,
                   rTasks, rNext, rRejected, rReads, rCalls, rGenerated, rOps, rPrinted, rExit>>
    /\ UNCHANGED otherThanRun

\* index.ts:155-240: runPool(LANG_CONC, langTasks) starts its workers
StartPool ==
    /\ rPc = "ready"
    /\ LET n == Len(rTargets)
           w == WorkerCount(rLimit, n)
       IN  /\ rTasks' = [i \in 1..n |-> IF i <= w THEN "prev" ELSE "unclaimed"]
           /\ rNext' = w
    /\ rPc' = "running"
    /\ UNCHANGED <<rEnv, rArgv, rLimit, rSolutions, rStarters, rStageDesc, rTargets,
                   rRejected, rReads, rCalls, rGenerated, rOps, rPrinted, rExit>>
    /\ UNCHANGED otherThanRun

\* What every step of a language task leaves alone
TaskFrame ==
    /\ UNCHANGED <<rEnv, rArgv, rLimit, rSolutions, rStarters, rStageDesc, rTargets,
                   rPc, rReads, rPrinted, rExit>>
    /\ UNCHANGED otherThanRun

TaskStep(i, from, to) ==
    /\ rPc = "running"
    /\ i \in 1..Len(rTasks)
    /\ rTasks[i] = from
    /\ rTasks' = [rTasks EXCEPT ![i] = to]

\* The task's promise is rejected: its worker ends, and so does the pool's
\* promise
TaskThrows(i, from) ==
    /\ TaskStep(i, from, "failed")
    /\ rRejected' = TRUE

\* index.ts:158-160
TaskReadPrevious(i) ==
    /\ TaskStep(i, "prev", "generate")
    /\ UNCHANGED <<rNext, rRejected, rCalls, rGenerated, rOps>>
    /\ TaskFrame

\* index.ts:164-203 with a failed generation caught
TaskGenerateGoesOn(i, ok) ==
    /\ TaskStep(i, "generate", "prepare")
    /\ rGenerated' = IF ok THEN rGenerated \cup {i} ELSE rGenerated
    /\ rCalls' = rCalls \cup {i}
    /\ UNCHANGED <<rNext, rOps, rRejected>>
    /\ TaskFrame

\* index.ts:164-203
TaskGenerate(i, ok) ==
    /\ IF ok THEN TaskStep(i, "generate", "prepare") /\ UNCHANGED rRejected
       ELSE TaskThrows(i, "generate")
    /\ rGenerated' = IF ok THEN rGenerated \cup {i} ELSE rGenerated
    /\ rCalls' = rCalls \cup {i}
    /\ UNCHANGED <<rNext, rOps>>
    /\ TaskFrame

\* io.ts:225-228
TaskPrepare(i) ==
    /\ i \in 1..Len(rTargets)
    /\ IF rTargets[i] \in rStarters
       THEN TaskStep(i, "prepare", "rm") /\ UNCHANGED rRejected
       ELSE TaskThrows(i, "prepare")
    /\ UNCHANGED <<rNext, rCalls, rGenerated, rOps>>
    /\ TaskFrame

\* io.ts:231
TaskRm(i) ==
    /\ TaskStep(i, "rm", "mkdir")
    /\ rOps' = rOps \cup {Op(i, "rm")}
    /\ UNCHANGED <<rNext, rRejected, rCalls, rGenerated>>
    /\ TaskFrame

\* io.ts:232
TaskMkdir(i) ==
    /\ TaskStep(i, "mkdir", "copy")
    /\ rOps' = rOps \cup {Op(i, "mkdir")}
    /\ UNCHANGED <<rNext, rRejected, rCalls, rGenerated>>
    /\ TaskFrame

\* io.ts:233
TaskCopy(i) ==
    /\ TaskStep(i, "copy", "write")
    /\ rOps' = rOps \cup {Op(i, "copy")}
    /\ UNCHANGED <<rNext, rRejected, rCalls, rGenerated>>
    /\ TaskFrame

\* io.ts:259-273; found: whether findMainFileRecursive returns a path
TaskWriteSolution(i, found) ==
    /\ TaskStep(i, "write", "hints")
    /\ rOps' = rOps \cup (IF found THEN {} ELSE {Op(i, "mkdirSrc")})
                    \cup (IF rEnv.dry THEN {} ELSE {Op(i, "writeFile")})
    /\ UNCHANGED <<rNext, rRejected, rCalls, rGenerated>>
    /\ TaskFrame

\* index.ts:221-235 with io.ts:308-313, and the worker's next turn of its loop
TaskWriteHints(i) ==
    /\ rPc = "running"
    /\ i \in 1..Len(rTasks)
    /\ rTasks[i] = "hints"
    /\ rOps' = rOps \cup (IF rEnv.dry THEN {}
                          ELSE {Op(i, "mkdirConfig"), Op(i, "writeConfig")})
    /\ rTasks' = WorkerNext(rTasks, i, rNext)
    /\ rNext' = rNext + 1
    /\ UNCHANGED <<rRejected, rCalls, rGenerated>>
    /\ TaskFrame

\* index.ts:238-242: every worker has returned
PrintSummary ==
    /\ rPc = "running"
    /\ ~rRejected
    /\ \A i \in 1..Len(rTasks) : rTasks[i] \notin RunningPcs
    /\ rPrinted' = "summary"
    /\ rPc' = "finished"
    /\ UNCHANGED <<rEnv, rArgv, rLimit, rSolutions, rStarters, rStageDesc, rTargets,
                   rTasks, rNext, rRejected, rReads, rCalls, rGenerated, rOps, rExit>>
    /\ UNCHANGED otherThanRun

\* main's promise is fulfilled and nothing is left to run
ProcessEnds ==
    /\ rPc = "finished"
    /\ rExit' = 0
    /\ rPc' = "exited"
    /\ UNCHANGED <<rEnv, rArgv, rLimit, rSolutions, rStarters, rStageDesc, rTargets,
                   rTasks, rNext, rRejected, rReads, rCalls, rGenerated, rOps, rPrinted>>
    /\ UNCHANGED otherThanRun

\* index.ts:245-249
MainCatch ==
    /\ rPc \in {"rejected", "running"}
    /\ rRejected
    /\ rPrinted' = "error"
    /\ rExit' = 1
    /\ rPc' = "exited"
    /\ UNCHANGED <<rEnv, rArgv, rLimit, rSolutions, rStarters, rStageDesc, rTargets,
                   rTasks, rNext, rRejected, rReads, rCalls, rGenerated, rOps>>
    /\ UNCHANGED otherThanRun

NextRun ==
    \/ LoadModules
    \/ ResolveTargets
    \/ ReadStage
    \/ ReadExamples
    \/ StartPool
    \/ \E i \in 1..MaxTargets : TaskReadPrevious(i)
    \/ \E i \in 1..MaxTargets, ok \in BOOLEAN : TaskGenerate(i, ok)
    \/ \E i \in 1..MaxTargets : TaskPrepare(i)
    \/ \E i \in 1..MaxTargets : TaskRm(i)
    \/ \E i \in 1..MaxTargets : TaskMkdir(i)
    \/ \E i \in 1..MaxTargets : TaskCopy(i)
    \/ \E i \in 1..MaxTargets, found \in BOOLEAN : TaskWriteSolution(i, found)
    \/ \E i \in 1..MaxTargets : TaskWriteHints(i)
    \/ PrintSummary
    \/ ProcessEnds
    \/ MainCatch

\* ------------------------------------------------------- the readers of io.ts

\* How a call ends
Ret(v) == [threw |-> FALSE, v |-> v]
Throw(e) == [threw |-> TRUE, v |-> <<e>>]

\* ---- readStageDescription (io.ts:316-363)

StageId == <<"02">>
Md == ".md"

\* The nodes of stage_descriptions/: nothing, a regular file, or a directory
\* with the names fs.readdir lists
Absent == [type |-> "absent", names |-> << >>]
RegularFile == [type |-> "file", names |-> << >>]
Folder(names) == [type |-> "dir", names |-> names]

\* io.ts:327 and 346: the folder the variant looks for
FolderNameSwapped(kind, id) == IF kind = "base" THEN id ELSE <<"base-">> \o id
FolderName(kind, id) == IF kind = "base" THEN <<"base-">> \o id ELSE id

\* io.ts:336 and 354: the single file the variant falls back to
FileName(kind, id) == Append(FolderName(kind, id), Md)

\* files.find((f) => f.endsWith(".md"))
RECURSIVE FindMd(_)
FindMd(names) ==
    IF names = << >> THEN << >>
    ELSE IF EndsWith(Head(names), <<Md>>) THEN Head(names)
    ELSE FindMd(Tail(names))

\* fs.readFile(p, "utf8") of a regular file: each file holds its own path
FileText(p) == <<"text of">> \o p

\* io.ts:316-363; dir maps the names of stage_descriptions/ to their nodes
ReadStageDescription(dir, id, kind) ==
    LET folderPath == FolderName(kind, id)
        filePath == FileName(kind, id)
    IN  IF dir[folderPath].type # "absent"
        THEN IF dir[folderPath].type # "dir" THEN Throw("ENOTDIR")
             ELSE LET md == FindMd(dir[folderPath].names)
                  IN  IF md = << >> THEN Throw("No markdown found")
                      ELSE Ret(FileText(folderPath \o <<"/">> \o md))
        ELSE IF dir[filePath].type # "absent"
        THEN IF dir[filePath].type = "dir" THEN Throw("EISDIR")
             ELSE Ret(FileText(filePath))
        ELSE Throw("Stage description not found")

\* ---- findPreviousStageId, readSolutionAt, readPreviousSolution (io.ts:365-431)

\* name.match(/^(\d+)/): the leading digits of a name, "" when there are none
RECURSIVE LeadingDigits(_)
LeadingDigits(str) ==
    IF str = << >> \/ IndexOf(Digits, Head(str)) = 0 THEN << >>
    ELSE <<Head(str)>> \o LeadingDigits(Tail(str))

\* Number(m[1]) of a run of digits
RECURSIVE DigitsValue(_)
DigitsValue(ds) ==
    IF ds = << >> THEN 0
    ELSE 10 * DigitsValue(SubSeq(ds, 1, Len(ds) - 1)) + IndexOf(Digits, ds[Len(ds)]) - 1

\* null
NoStage == << >>

\* An entry of solutions/<language>: a stage directory with the state of its
\* entry file ("none": no code directory or no entry file; "unreadable": the
\* entry file is found and readFile fails; "text"), or a plain file
StageDirEntry(name, code) == [name |-> name, isDirectory |-> TRUE, code |-> code]
PlainEntry(name) == [name |-> name, isDirectory |-> FALSE, code |-> "none"]

\* solutions/<language>: "absent", "file" (not a directory), "noaccess" (a
\* directory readdir fails on) or "dir"
LangNode(type, entries) == [type |-> type, entries |-> entries]

\* io.ts:404-412: the first directory whose number is num
RECURSIVE FindCandidate(_, _)
FindCandidate(entries, num) ==
    IF entries = << >> THEN NoStage
    ELSE LET e == Head(entries)
         IN  IF /\ e.isDirectory
                /\ LeadingDigits(e.name) # << >>
                /\ DigitsValue(LeadingDigits(e.name)) = num
             THEN e.name
             ELSE FindCandidate(Tail(entries), num)

\* io.ts:388-414
FindPreviousStageId(node, currentStageId) ==
    IF node.type = "absent" THEN Ret(NoStage)
    ELSE IF LeadingDigits(currentStageId) = << >> THEN Ret(NoStage)
    ELSE IF node.type = "file" THEN Throw("ENOTDIR")
    ELSE IF node.type = "noaccess" THEN Throw("EACCES")
    ELSE Ret(FindCandidate(node.entries,
                           DigitsValue(LeadingDigits(currentStageId)) - 1))

\* io.ts:365-386: findMainFileRecursive finds nothing below a code directory
\* that is not there, and readFile's failure is caught
RECURSIVE EntryNamed(_, _)
EntryNamed(entries, name) ==
    IF entries = << >> THEN PlainEntry(name)
    ELSE IF Head(entries).name = name THEN Head(entries)
    ELSE EntryNamed(Tail(entries), name)

ReadSolutionAt(node, stageId) ==
    LET e == IF node.type = "dir" THEN EntryNamed(node.entries, stageId)
             ELSE PlainEntry(stageId)
    IN  IF e.isDirectory /\ e.code = "text"
        THEN Ret(FileText(stageId \o <<"/code/main">>))
        ELSE Ret(<< >>)

\* io.ts:416-431
ReadPreviousSolution(node, currentStageId) ==
    LET prevId == FindPreviousStageId(node, currentStageId)
    IN  IF prevId.threw THEN prevId
        ELSE IF prevId.v = NoStage THEN Ret([stageId |-> NoStage, code |-> << >>])
        ELSE Ret([stageId |-> prevId.v,
                  code |-> ReadSolutionAt(node, prevId.v).v])

\* The current stage ids that are checked
CurrentIds == {<<"0", "2", "-", "a">>, <<"a", "2">>, <<"1", "0">>, <<"0">>}

\* The states of solutions/<language> that are checked
LangListings ==
    {<< >>,
     <<StageDirEntry(<<"0", "1", "-", "a">>, "text")>>,
     <<PlainEntry(<<"1", "-", "b">>), StageDirEntry(<<"x", "1">>, "text"),
       StageDirEntry(<<"0", "2", "-", "a">>, "text"), StageDirEntry(<<"1">>, "none"),
       StageDirEntry(<<"0", "1", "-", "a">>, "text")>>,
     <<StageDirEntry(<<"0", "9">>, "unreadable"),
       StageDirEntry(<<"0", "1", "-", "a">>, "text")>>,
     <<StageDirEntry(<<"0", "2", "-", "a">>, "text"), StageDirEntry(<<"x", "1">>, "none")>>}

LangNodes ==
    {LangNode("absent", << >>), LangNode("file", << >>)}
        \cup {LangNode(t, l) : t \in {"dir", "noaccess"}, l \in LangListings}

LangCalls ==
    {[fn |-> f, node |-> n, id |-> c] :
        f \in {"findPreviousStageId", "readPreviousSolution", "readSolutionAt"},
        n \in LangNodes, c \in CurrentIds \cup {<<"0", "9">>}}

\* The listings of a stage folder that are checked
FolderListings ==
    {<< >>, <<<<"a", Md>>>>, <<<<"notes">>, <<"b", Md>>, <<"c", Md>>>>, <<<<"notes">>>>}

StageFolderNodes == {Absent, RegularFile} \cup {Folder(l) : l \in FolderListings}
StageFileNodes == {Absent, RegularFile}

\* The states of stage_descriptions/ that are checked
StageDirs ==
    {[n \in {FolderName("base", StageId), FileName("base", StageId),
             FolderName("localized", StageId), FileName("localized", StageId)} |->
         CASE n = FolderName("base", StageId) -> bf
           [] n = FileName("base", StageId) -> bs
           [] n = FolderName("localized", StageId) -> lf
           [] OTHER -> ls] :
        bf \in StageFolderNodes, lf \in StageFolderNodes,
        bs \in StageFileNodes, ls \in StageFileNodes}

StageCalls ==
    {[fn |-> "readStageDescription", dir |-> d, id |-> StageId, kind |-> k] :
        d \in StageDirs, k \in {"base", "localized"}}

IdleIo ==
    /\ ioCall = [fn |-> "none"]
    /\ ioOut = Ret(<< >>)
    /\ ioPc = "idle"

InitIoVars ==
    /\ ioCall \in StageCalls \cup LangCalls
    /\ ioOut = Ret(<< >>)
    /\ ioPc = "called"

CallReadStageDescription ==
    /\ ioPc = "called"
    /\ ioCall.fn = "readStageDescription"
    /\ ioOut' = ReadStageDescription(ioCall.dir, ioCall.id, ioCall.kind)
    /\ ioPc' = "returned"
    /\ UNCHANGED ioCall
    /\ UNCHANGED otherThanIo

CallFindPreviousStageId ==
    /\ ioPc = "called"
    /\ ioCall.fn = "findPreviousStageId"
    /\ ioOut' = FindPreviousStageId(ioCall.node, ioCall.id)
    /\ ioPc' = "returned"
    /\ UNCHANGED ioCall
    /\ UNCHANGED otherThanIo

CallReadSolutionAt ==
    /\ ioPc = "called"
    /\ ioCall.fn = "readSolutionAt"
    /\ ioOut' = ReadSolutionAt(ioCall.node, ioCall.id)
    /\ ioPc' = "returned"
    /\ UNCHANGED ioCall
    /\ UNCHANGED otherThanIo

CallReadPreviousSolution ==
    /\ ioPc = "called"
    /\ ioCall.fn = "readPreviousSolution"
    /\ ioOut' = ReadPreviousSolution(ioCall.node, ioCall.id)
    /\ ioPc' = "returned"
    /\ UNCHANGED ioCall
    /\ UNCHANGED otherThanIo

NextIo ==
    \/ CallReadStageDescription
    \/ CallFindPreviousStageId
    \/ CallReadSolutionAt
    \/ CallReadPreviousSolution

\* ------------------------------------------- the generated solution's text

\* The longest backend response that is checked, in lexemes
MaxRespLen == 5

\* The lexeme of three backticks
Fence == "<fence>"

\* The lexemes of a response: the fence, a word, a newline, a space, a letter
RespLexemes == {Fence, "ts", "\n", " ", "x"}

\* [a-zA-Z0-9]
IsAlnum(c) == c \in {"ts", "x"}

\* \s
IsSpace(c) == c \in {" ", "\n"}

\* String.prototype.trim
RECURSIVE JsTrim(_)
JsTrim(str) ==
    IF str # << >> /\ IsSpace(Head(str)) THEN JsTrim(Tail(str))
    ELSE IF str # << >> /\ IsSpace(str[Len(str)])
    THEN JsTrim(SubSeq(str, 1, Len(str) - 1))
    ELSE str

\* The first index from i on whose lexeme satisfies no [a-zA-Z0-9]
RECURSIVE SkipAlnum(_, _)
SkipAlnum(raw, i) ==
    IF i <= Len(raw) /\ IsAlnum(raw[i]) THEN SkipAlnum(raw, i + 1) ELSE i

\* The first index from i on that holds a fence, 0 when there is none
RECURSIVE NextFence(_, _)
NextFence(raw, i) ==
    IF i > Len(raw) THEN 0
    ELSE IF raw[i] = Fence THEN i
    ELSE NextFence(raw, i + 1)

\* generate.ts:151: raw.match(/```[a-zA-Z0-9]*\n([\s\S]*?)```/) tried at i, i + 1, ...
RECURSIVE FenceMatch(_, _)
FenceMatch(raw, i) ==
    IF i > Len(raw) THEN [found |-> FALSE, group |-> << >>]
    ELSE LET j == SkipAlnum(raw, i + 1)
             k == NextFence(raw, j + 1)
         IN  IF raw[i] = Fence /\ j <= Len(raw) /\ raw[j] = "\n" /\ k > 0
             THEN [found |-> TRUE, group |-> SubSeq(raw, j + 1, k - 1)]
             ELSE FenceMatch(raw, i + 1)

\* generate.ts:138-153, from the response on
LlmCode(raw) ==
    LET m == FenceMatch(raw, 1)
    IN  IF m.found THEN JsTrim(m.group) ELSE JsTrim(raw)

\* generate.ts:198-208: resp.choices[0].message?.content?.trim() || ""
GenerateSolutionCode(raw) == JsTrim(raw)

NotWritten == <<"not written">>

IdleCode ==
    /\ codeResp = << >>
    /\ codeDry = FALSE
    /\ codeSol = << >>
    /\ codeFile = NotWritten
    /\ codePc = "idle"

InitCodeVars ==
    /\ codeResp \in StringsUpTo(RespLexemes, MaxRespLen)
    /\ codeDry \in BOOLEAN
    /\ codeSol = << >>
    /\ codeFile = NotWritten
    /\ codePc = "asked"

\* index.ts:164-198: the solution task of the inner pool, and sol.code
GenerateSolution ==
    /\ codePc = "asked"
    /\ codeSol' = GenerateSolutionCode(codeResp)
    /\ codePc' = "generated"
    /\ UNCHANGED <<codeResp, codeDry, codeFile>>
    /\ UNCHANGED otherThanCode

\* index.ts:205-217 with io.ts:269-271
WriteSolution ==
    /\ codePc = "generated"
    /\ codeFile' = IF codeDry THEN codeFile ELSE codeSol
    /\ codePc' = "written"
    /\ UNCHANGED <<codeResp, codeDry, codeSol>>
    /\ UNCHANGED otherThanCode

NextCode ==
    \/ GenerateSolution
    \/ WriteSolution

\* ---------------------------------------------------------- specifications

InitPoolRun == InitPool /\ IdleFind /\ IdleMain /\ IdleHints /\ IdleCli /\ IdlePrep /\ IdleLog /\ IdleRun /\ IdleIo /\ IdleCode

SpecPool == InitPoolRun /\ [][NextPool]_vars

\* runPool with tasks that fulfil or hang, under the scheduling of the event
\* loop: the call runs, and a task that is not hung settles
SpecPoolFair ==
    /\ InitPoolRun
    /\ [][NextPoolFair]_vars
    /\ WF_vars(RunPoolCall)
    /\ \A w \in 1..MaxTasks : WF_vars(\E v \in Values : TaskFulfil(w, v))

InitFindRun == IdlePool /\ InitFindVars /\ IdleMain /\ IdleHints /\ IdleCli /\ IdlePrep /\ IdleLog /\ IdleRun /\ IdleIo /\ IdleCode

SpecFind == InitFindRun /\ [][NextFind]_vars

InitMainRun == IdlePool /\ IdleFind /\ InitMainVars /\ IdleHints /\ IdleCli /\ IdlePrep /\ IdleLog /\ IdleRun /\ IdleIo /\ IdleCode

SpecMain == InitMainRun /\ [][NextMain]_vars

InitHintsRun == IdlePool /\ IdleFind /\ IdleMain /\ InitHintsVars /\ IdleCli /\ IdlePrep /\ IdleLog /\ IdleRun /\ IdleIo /\ IdleCode

SpecHints == InitHintsRun /\ [][NextHints]_vars

InitCliRun == IdlePool /\ IdleFind /\ IdleMain /\ IdleHints /\ InitCliVars /\ IdlePrep /\ IdleLog /\ IdleRun /\ IdleIo /\ IdleCode

SpecCli == InitCliRun /\ [][NextCli]_vars

InitCliFlagsRun == IdlePool /\ IdleFind /\ IdleMain /\ IdleHints /\ InitCliFlagsVars /\ IdlePrep /\ IdleLog /\ IdleRun /\ IdleIo /\ IdleCode
\* parseCLI alone, on command lines long enough to repeat a flag with its value
SpecCliFlags == InitCliFlagsRun /\ [][NextCliFlags]_vars

InitPrepRun == IdlePool /\ IdleFind /\ IdleMain /\ IdleHints /\ IdleCli /\ InitPrepVars /\ IdleLog /\ IdleRun /\ IdleIo /\ IdleCode

SpecPrep == InitPrepRun /\ [][NextPrep]_vars

InitLogRun == IdlePool /\ IdleFind /\ IdleMain /\ IdleHints /\ IdleCli /\ IdlePrep /\ InitLogVars /\ IdleRun /\ IdleIo /\ IdleCode

SpecLog == InitLogRun /\ [][NextLog]_vars

InitWholeRun == IdlePool /\ IdleFind /\ IdleMain /\ IdleHints /\ IdleCli /\ IdlePrep /\ IdleLog /\ InitRunVars /\ IdleIo /\ IdleCode

SpecRun == InitWholeRun /\ [][NextRun]_vars

InitIoRun == IdlePool /\ IdleFind /\ IdleMain /\ IdleHints /\ IdleCli /\ IdlePrep /\ IdleLog /\ IdleRun /\ InitIoVars /\ IdleCode

SpecIo == InitIoRun /\ [][NextIo]_vars

InitCodeRun == IdlePool /\ IdleFind /\ IdleMain /\ IdleHints /\ IdleCli /\ IdlePrep /\ IdleLog /\ IdleRun /\ IdleIo /\ InitCodeVars

SpecCode == InitCodeRun /\ [][NextCode]_vars


\* ------------------------------------------------------- runPool: properties

Min(a, b) == IF a <= b THEN a ELSE b
Max(a, b) == IF a >= b THEN a ELSE b

TaskIds == 0..(nTasks - 1)
InFlight == Cardinality({i \in TaskIds : taskState[i] = "pending"})
Settled(i) == taskState[i] \in {"fulfilled", "rejected"}

\* C1: when runPool resolves, its result array has length N and element i is
\* the value tasks[i] returned, for every limit (stated as the claim states it;
\* the limit NaN refutes it).
C1_ResultsByInputIndex ==
    poolState = "resolved" =>
        /\ DOMAIN results = TaskIds
        /\ \A i \in TaskIds : taskState[i] = "fulfilled" /\ results[i] = returned[i]

\* C1, for the limits that are numbers: the same statement, which holds.
C1_ResultsByInputIndex_NumericLimit == ~limit.nan => C1_ResultsByInputIndex

\* C2: with an integer limit, at most K = max(1, min(limit, N)) tasks are
\* started and not yet settled, and exactly min(max(limit, 1), N) workers are
\* created.
C2_InFlightBounded ==
    (~limit.nan /\ poolState # "init") =>
        /\ InFlight <= Max(1, Min(limit.v, nTasks))
        /\ Len(workers) = Min(Max(limit.v, 1), nTasks)

C2_Witness ==
    /\ ~limit.nan /\ limit.v = 2 /\ nTasks = 3
    /\ InFlight = 2
    /\ \E i \in TaskIds : taskState[i] = "fulfilled"

\* C3: with a limit <= 0 the pool is the pool of limit 1: one worker, at most
\* one task in flight, and task i+1 is started only after task i has settled.
C3_NonPositiveLimitIsOne ==
    (~limit.nan /\ limit.v <= 0 /\ poolState # "init") =>
        /\ Len(workers) = Min(1, nTasks)
        /\ InFlight <= 1
        /\ \A i \in TaskIds : (i + 1) \in TaskIds /\ taskState[i + 1] # "unstarted"
                                => Settled(i)

C3_Witness ==
    /\ ~limit.nan /\ limit.v <= 0 /\ nTasks >= 2
    /\ taskState[0] = "fulfilled" /\ taskState[1] = "pending"

\* C4: no index is claimed by two workers, and when runPool resolves every
\* index has been claimed and its task called exactly once and completed
\* (stated as the claim states it; the limit NaN refutes it).
C4_EachTaskExactlyOnce ==
    /\ \A i \in TaskIds : calls[i] <= 1
    /\ \A w1, w2 \in DOMAIN workers :
          (w1 # w2 /\ workers[w1].i # NoTask) => workers[w1].i # workers[w2].i
    /\ poolState = "resolved" =>
          \A i \in TaskIds : calls[i] = 1 /\ taskState[i] = "fulfilled"

\* C4, for the limits that are numbers: the same statement, which holds.
C4_EachTaskExactlyOnce_NumericLimit == ~limit.nan => C4_EachTaskExactlyOnce

\* C5: once a task has rejected, runPool has rejected with the error of the
\* first task that rejected, whatever the other tasks are doing, and it never
\* resolves after a task has failed.
C5_RejectsWithFirstError ==
    /\ rejLog # << >> => poolState = "rejected" /\ poolError = rejLog[1]
    /\ poolState = "resolved" => rejLog = << >>

C5_Witness ==
    /\ Len(rejLog) = 2 /\ rejLog[1] > rejLog[2]
    /\ poolState = "rejected" /\ poolError = rejLog[1]
    /\ InFlight >= 1

\* ----------------------------------------- findMainFileRecursive: properties

Last(seq) == seq[Len(seq)]

\* What the tree holds, read off the tree and not off the scan: a file can be
\* seen when the base directory exists and every directory above the file can
\* be read.
Visible(path) ==
    /\ ~BaseMissing
    /\ \A k \in 1..(Len(path) - 1) : KindOf(SubSeq(path, 1, k)) = "dir"

FilesOfTree ==
    {TreeUniverse[id].path : id \in {x \in tree : TreeUniverse[x].kind = "file"}}

\* The files under the conventional root `root` that end in the extension and
\* lie within the depth bound of phase 1
RootMatches(root) ==
    {f \in FilesOfTree :
        /\ Len(f) >= 2 /\ f[1] = root
        /\ Visible(f)
        /\ EndsWith(Last(f), findExt)
        /\ Len(f) - 2 <= MaxDepth1}

C8_ResultIsFileOrNull ==
    /\ findPc # "threw"
    /\ findPc = "done" =>
          \/ findResult = Null
          \/ /\ findResult.found
             /\ findResult.fp \in FilesOfTree
             /\ EndsWith(Last(findResult.fp), findExt)

\* The steps findMainFileRecursive has left at most
C8_StepsLeft ==
    CASE findPc = "phase1" -> 3 + (Len(ROOTS) - rootIdx)
      [] findPc = "after1" -> 2
      [] findPc = "after2" -> 1
      [] OTHER -> 0

\* C8: for every tree and extension the scan terminates (every step of it
\* brings the return nearer), it never throws, and the result is null or the
\* path of a file of the tree whose name ends in the extension.
C8_NeverThrows ==
    /\ [](C8_ResultIsFileOrNull)
    /\ [][C8_StepsLeft' < C8_StepsLeft]_vars

C8_Witness ==
    /\ findPc = "done"
    /\ findResult.found
    /\ \E id \in tree : TreeUniverse[id] = File(<<N_src>>)
    /\ \E id \in tree : TreeUniverse[id].kind = "nodir"

\* C9: the conventional roots are tried in the order src, lib, app, Sources;
\* the result is a file under the first of them that holds a match within the
\* depth bound, and the hits of phase 1 never mix two roots.
C9_RootOrder == <<N_src, N_lib, N_app, N_Sources>>

C9_FirstRootWins ==
    /\ \A a, b \in 1..Len(phase1Hits) : phase1Hits[a].fp[1] = phase1Hits[b].fp[1]
    /\ findPc = "done" =>
          \A k \in 1..Len(C9_RootOrder) :
              (/\ RootMatches(C9_RootOrder[k]) # {}
               /\ \A j \in 1..(k - 1) : RootMatches(C9_RootOrder[j]) = {})
              => /\ findResult.found
                 /\ findResult.fp \in RootMatches(C9_RootOrder[k])

C9_Witness ==
    /\ findPc = "done"
    /\ findExt = DotPy
    /\ <<N_src, <<"a">>, N_util \o DotPy>> \in RootMatches(N_src)
    /\ <<N_lib, N_main \o DotPy>> \in RootMatches(N_lib)
    /\ findResult = Found(<<N_src, <<"a">>, N_util \o DotPy>>)

\* C10: within the winning root the result is the least candidate by
\* (a) the position of its basename without extension in the preference list,
\* unlisted names last, (b) depth, (c) path.
C10_PreferenceList ==
    <<N_main, N_Main, N_index, N_Index, N_app, N_App, N_server, N_Server,
      N_core, N_Core, N_program, N_Program, N_Sources>>

C10_Rank(f) ==
    LET base == SubSeq(Last(f), 1, Len(Last(f)) - Len(findExt))
        i == IndexOf(C10_PreferenceList, base)
    IN  IF i > 0 THEN i ELSE Len(C10_PreferenceList) + 1

C10_Precedes(f, g) ==
    \/ C10_Rank(f) < C10_Rank(g)
    \/ C10_Rank(f) = C10_Rank(g) /\ Len(f) < Len(g)
    \/ /\ C10_Rank(f) = C10_Rank(g) /\ Len(f) = Len(g)
       /\ LocaleCompare(PathString(f), PathString(g)) < 0

C10_WitnessDepth ==
    /\ findPc = "done"
    /\ findExt = DotPy
    /\ RootMatches(N_src) = {<<N_src, <<"a">>, N_util \o DotPy>>,
                             <<N_src, N_util \o DotPy>>}
    /\ findResult = Found(<<N_src, N_util \o DotPy>>)

C10_WitnessPath ==
    /\ findPc = "done"
    /\ findExt = DotPy
    /\ RootMatches(N_src) = {<<N_src, N_Zed \o DotPy>>,
                             <<N_src, N_util \o DotPy>>}
    /\ findResult = Found(<<N_src, N_util \o DotPy>>)

\* The files of the whole tree that end in the extension and lie within the
\* depth bound of phase 2 (a file directly in baseDir has depth 0)
TreeMatches ==
    {f \in FilesOfTree :
        /\ Visible(f)
        /\ EndsWith(Last(f), findExt)
        /\ Len(f) - 1 <= MaxDepth2}

NoRootMatches == \A k \in 1..Len(C9_RootOrder) : RootMatches(C9_RootOrder[k]) = {}

Phase2Ran == findPc = "after2" \/ (findPc = "done" /\ phase1Hits = << >>)

C11_Precedes(f, g) ==
    \/ Len(f) > Len(g)
    \/ Len(f) = Len(g) /\ C10_Rank(f) < C10_Rank(g)
    \/ /\ Len(f) = Len(g) /\ C10_Rank(f) = C10_Rank(g)
       /\ LocaleCompare(PathString(f), PathString(g)) < 0

C11_WitnessBelowPhase1Bound ==
    /\ findPc = "done"
    /\ Phase2Ran
    /\ findResult.found
    /\ findResult.fp[1] = N_src
    /\ Len(findResult.fp) = MaxDepth1 + 3

C11_WitnessBelowPhase2Bound ==
    /\ findPc = "done"
    /\ findResult = Null
    /\ \E f \in FilesOfTree : EndsWith(Last(f), findExt) /\ Len(f) - 1 > MaxDepth2

\* ------------------------------------------------------------ main: properties

\* C6: the hints written to a target's config.yml carry exactly the fixed
\* titles of the run, in number, order and text, whatever the backend answers
\* (stated as the claim states it; an answer with other titles refutes it).
C6_TitleFidelity ==
    \A t \in TargetIds : cfgFile[t].written => cfgFile[t].titles = fixedTitles

\* C7: the fixed titles are the title list of the first reference language,
\* in the order supplied, whose title list is not empty, and the two built-in
\* titles when every list is empty; every target's generation is given them.
C7_FixedTitlesFromFirstReference ==
    mainPc \notin {"readExamples", "fixTitles"} =>
        LET withTitles == {k \in 1..Len(REFS) : Len(examples[k].hintTitles) > 0}
        IN  /\ \A k \in 1..Len(REFS) : examples[k].language = REFS[k]
            /\ withTitles # {} =>
                  \E k \in withTitles :
                      /\ \A j \in withTitles : k <= j
                      /\ fixedTitles = examples[k].hintTitles
            /\ withTitles = {} =>
                  fixedTitles = <<"How do I access the client's TCP connection?",
                                  "How do I send a response to the client?">>
            /\ \A t \in TargetIds :
                  langPc[t] \notin {"waiting", "generate"} => promptTitles[t] = fixedTitles

C7_Witness ==
    /\ mainPc = "exited0"
    /\ refConfigs[1] = [readable |-> TRUE, titles |-> <<"", NotAString>>]
    /\ examples[1].hintTitles = << >>
    /\ examples[2].hintTitles = <<"B", "A">>
    /\ fixedTitles = <<"B", "A">>
    /\ \A t \in TargetIds : promptTitles[t] = <<"B", "A">>

\* ------------------------------------------------- the hints file: properties

\* C12: a hint list written by writeTargetHints and read back by
\* readReferenceHints comes back with the same length, titles and bodies, in
\* the same order
C12_RoundTrip ==
    (hintsPc = "read" /\ ~hintsDry) => hintsOut = hintsIn

\* C12, the titles alone: they come back whenever the file can be parsed
C12_TitlesRoundTrip ==
    (hintsPc = "read" /\ ~hintsDry /\ YamlParse(hintsFile.lines).ok) =>
        /\ Len(hintsOut) = Len(hintsIn)
        /\ \A k \in 1..Len(hintsIn) :
              hintsOut[k].title_markdown = hintsIn[k].title_markdown

\* C12, the bodies that come back: no line of the body starts with a space
\* and the body does not end with a newline
C12_PlainBody(b) ==
    /\ b = << >> \/ b[Len(b)] # Newline
    /\ \A k \in 1..Len(b) : b[k] = Space => (k > 1 /\ b[k - 1] \notin {Space, Newline})

C12_PlainBodiesRoundTrip ==
    (/\ hintsPc = "read" /\ ~hintsDry
     /\ \A k \in 1..Len(hintsIn) : C12_PlainBody(hintsIn[k].body_markdown))
    => hintsOut = hintsIn

C12_WitnessRoundTrip ==
    /\ hintsPc = "read" /\ ~hintsDry
    /\ Len(hintsIn) = 2
    /\ hintsIn[1].body_markdown = <<Quote, Newline, Quote>>
    /\ hintsIn[1].title_markdown = <<Quote, "t", Newline>>
    /\ hintsOut = hintsIn

\* ------------------------------------------------------- parseCLI: properties

\* C15: --lang-concurrency <n> and --task-concurrency <n> set the width of
\* the pool over the target languages to n and the width of the pool of one
\* language to min(2, n), whatever the environment says
C15_ConcurrencyFlags ==
    (cliPc = "configured" /\ Len(argv) >= 2 /\ ~ToNumber(argv[2]).nan
     /\ ToNumber(argv[2]).v >= 1) =>
        /\ argv[1] = Flag("lang-concurrency") => langConc = ToNumber(argv[2])
        /\ argv[1] = Flag("task-concurrency") =>
              InnerLimit(taskConc) = MathMin(Num(2), ToNumber(argv[2]))

\* C15, what the code does: no command line changes the two settings
C15_SettingsFromEnvironmentOnly ==
    cliPc = "configured" =>
        /\ langConc = DefaultLangConcurrency(envLang)
        /\ taskConc = DefaultTaskConcurrency(envTask)

KnownFlags ==
    {Flag("project-root"), Flag("challenge-slug"), Flag("stage-id"),
     Flag("stage-kind"), Flag("refs"), Flag("targets"), Flag("model")}

\* The tokens that are a recognised flag or follow one
RECURSIVE KnownTokens(_, _)
KnownTokens(args, k) ==
    IF k > Len(args) THEN << >>
    ELSE IF args[k] \in KnownFlags \/ (k > 1 /\ args[k - 1] \in KnownFlags)
    THEN <<args[k]>> \o KnownTokens(args, k + 1)
    ELSE KnownTokens(args, k + 1)

\* C16: parseCLI returns (it never throws), and what it returns is what it
\* returns for the command line without the tokens that are neither a
\* recognised flag nor the token that follows a recognised flag
C16_UnknownIgnored ==
    /\ cliPc # "threw"
    /\ cliPc \in {"parsed", "configured"} => cliOpts = ParseCLI(KnownTokens(argv, 1))

C16_Witness ==
    /\ cliPc = "parsed"
    /\ argv = <<Flag("foo"), Flag("targets"), <<"zig", ",", " ", "zig">>>>
    /\ cliOpts.targets = Some(<<<<"zig">>, <<"zig">>>>)

\* ----------------------------------------- prepareSolutionCodeDir: properties

\* C20: without the starter template prepareSolutionCodeDir throws and the
\* code directory is as it was; with it, nothing is deleted before the check,
\* it does not throw, and when it returns the code directory holds exactly
\* the entries of the starter template, none of the previous contents
C20_FreshCopyOrUntouched ==
    /\ prepPc = "threw" => (~starter.exists /\ codeDir = codeDir0)
    /\ prepPc = "check" => codeDir = codeDir0
    /\ prepPc = "done" =>
          /\ starter.exists
          /\ codeParent
          /\ codeDir = Directory(starter.entries)

C20_Witness ==
    /\ prepPc = "done"
    /\ ~hasCp
    /\ FsFile(<<"stale">>, "old") \in codeDir0.entries
    /\ FsFile(<<"main">>, "old") \in codeDir0.entries
    /\ FsFile(<<"src", "main">>, "starter") \in codeDir.entries
    /\ FsDir(<<"empty">>) \in codeDir.entries

C20_WitnessThrows ==
    /\ prepPc = "threw"
    /\ codeDir0.entries # {}

\* --------------------------------------------------- the logger: properties

\* C18: whatever the interleaving of the callers, stdout holds whole lines,
\* one chunk per call, in the order write() was called, and a call's promise
\* resolves only once its line and every line queued before it are written
C18_LogSerialized ==
    /\ Len(stdout) <= Len(logCalls)
    /\ \A k \in 1..Len(stdout) :
          stdout[k].call = k /\ stdout[k].chunk = <<logCalls[k], "\n">>
    /\ \A k \in logResolved : Len(stdout) >= k

C18_Witness ==
    /\ Len(stdout) = 3
    /\ Len(chain) = 1
    /\ logCalls = <<"line a", "line b", "line b", "line a">>
    /\ logResolved = {1, 2}
    /\ logAwait[1] = 4 /\ logAwait[2] = 3


\* ------------------------------------------------ properties of a whole run

\* C13 (as stated): when the dry-run flag is set, the run makes no filesystem
\* mutation at all: nothing is deleted, created, copied or written
C13_DryRunNoMutation == rEnv.dry => rOps = {}

\* What the dry-run flag does suppress: the two writeFile calls and the mkdir of
\* the hints file's directory
C13_DryRunWritesNoFile ==
    rEnv.dry => \A o \in rOps : o.op \notin {"writeFile", "mkdirConfig", "writeConfig"}

\* Whether the command line gives a non-empty list of targets
ExplicitTargets ==
    LET o == ParseCLI(rArgv) IN o.targets.set /\ Len(o.targets.v) > 0

\* The non-hidden directories of solutions/ that are no reference language
DetectedLanguages ==
    LET es == rSolutions.entries
        refs == RefsOf(ParseCLI(rArgv))
    IN  IF ~rSolutions.readable THEN {}
        ELSE {es[k].name : k \in {k \in DOMAIN es :
                                     /\ es[k].isDirectory
                                     /\ es[k].name[1] # "."
                                     /\ \A r \in DOMAIN refs : refs[r] # es[k].name}}

\* Whether main has gone past the resolution of TARGETS
TargetsResolved ==
    \/ rPc \in {"resolved", "described", "ready", "running", "finished", "rejected"}
    \/ rPc = "exited" /\ rExit # 2

\* C14: with no explicit targets, TARGETS holds exactly the non-hidden
\* directories of solutions/ minus the reference languages, each once; if there
\* is none, main fails before any file is read, any backend call or any write
C14_TargetsDerived ==
    (TargetsResolved /\ ~ExplicitTargets) =>
        /\ {rTargets[k] : k \in DOMAIN rTargets} = DetectedLanguages
        /\ Len(rTargets) = Cardinality(DetectedLanguages)
        /\ DetectedLanguages = {} =>
              /\ rRejected
              /\ rTasks = << >>
              /\ ~rReads
              /\ rCalls = {}
              /\ rOps = {}
              /\ rExit \in {NoExit, 1}

\* C14: a run that derived its one target past a hidden directory, a plain file
\* and a reference language, and finished that target's task
C14_Witness ==
    /\ ~ExplicitTargets
    /\ rTargets = <<Zig>>
    /\ Len(rSolutions.entries) = 4
    /\ rTasks = <<"done">>

\* C14: a run that found no target and ended with exit code 1
C14_WitnessNoneDetected ==
    /\ ~ExplicitTargets
    /\ rSolutions.readable
    /\ TargetsResolved
    /\ rTargets = << >>
    /\ rExit = 1

\* C17: without the API key the process exits with 2 and has read, called and
\* written nothing; with it the process never exits with 2; exit code 1 comes
\* after a failure and the printed message; exit code 0 comes after the summary
\* of a run in which nothing failed; a process that has not exited has a step
\* to take
C17_ExitCodes ==
    /\ ~rEnv.apiKey =>
          /\ rExit \in {NoExit, 2}
          /\ ~rReads /\ rCalls = {} /\ rOps = {} /\ rTargets = << >>
    /\ rExit = 2 => ~rEnv.apiKey /\ rPrinted = "key"
    /\ rExit = 1 => rRejected /\ rPrinted = "error"
    /\ rExit = 0 =>
          /\ ~rRejected
          /\ \A i \in DOMAIN rTasks : rTasks[i] # "failed"
          /\ rPrinted = "summary"
    /\ (rRejected \/ \E i \in DOMAIN rTasks : rTasks[i] = "failed") => rExit \in {NoExit, 1}
    /\ (rPc # "idle" /\ rExit = NoExit) => ENABLED NextRun

\* C17: a run whose language task failed while another one went on, ended with
\* exit code 1
C17_Witness ==
    /\ rExit = 1
    /\ \E i \in DOMAIN rTasks : rTasks[i] = "failed"
    /\ \E i \in DOMAIN rTasks : rTasks[i] \in FsPcs

\* C17: a run without the API key, ended with exit code 2
C17_WitnessNoKey == ~rEnv.apiKey /\ rExit = 2

\* C17: a run in which nothing failed, ended with exit code 0
C17_WitnessSuccess == rExit = 0 /\ rTasks = <<"done", "done">>

\* C19 (as stated): no two language tasks that are running at the same time
\* delete, copy into or write the same output directory
C19_Isolation ==
    \A i, j \in DOMAIN rTasks :
        (i # j /\ rTasks[i] \in FsPcs /\ rTasks[j] \in FsPcs) => rTargets[i] # rTargets[j]

\* With the targets derived from solutions/ no language is there twice, and no
\* two running tasks share an output directory
C19_DerivedTargetsIsolated == ExplicitTargets \/ C19_Isolation


\* ------------------------------------------------ properties of the readers

\* The folder name of the call's variant: base-<id> for base, <id> for localized
StageName ==
    IF ioCall.kind = "base" THEN <<"base-", "02">> ELSE <<"02">>

\* The markdown files of the variant's folder, as indices of its listing
StageFolderMds ==
    {k \in DOMAIN ioCall.dir[StageName].names :
        ioCall.dir[StageName].names[k][Len(ioCall.dir[StageName].names[k])] = ".md"}

\* C21: for either variant, a folder of the variant's name that holds a markdown
\* file gives that file's text (the first one listed), whether or not the
\* single file <name>.md exists; with no such folder the single file's text is
\* returned; with neither the call throws the not-found error
C21_StageDescription ==
    (ioPc = "returned" /\ ioCall.fn = "readStageDescription") =>
        LET folder == ioCall.dir[StageName]
            single == ioCall.dir[StageName \o <<".md">>]
        IN  /\ (folder.type = "dir" /\ StageFolderMds # {}) =>
                  \E k \in StageFolderMds :
                      /\ \A j \in StageFolderMds : k <= j
                      /\ ioOut = Ret(FileText(StageName \o <<"/">> \o folder.names[k]))
            /\ (folder.type = "absent" /\ single.type = "file") =>
                  ioOut = Ret(FileText(StageName \o <<".md">>))
            /\ (folder.type = "absent" /\ single.type = "absent") =>
                  ioOut = Throw("Stage description not found")

\* C21: a localized call that found both the folder, with its markdown file
\* after another file, and the single file, and returned the folder's file
C21_Witness ==
    /\ ioPc = "returned"
    /\ ioCall.fn = "readStageDescription"
    /\ ioCall.kind = "localized"
    /\ ioCall.dir[<<"02">>].type = "dir"
    /\ Len(ioCall.dir[<<"02">>].names) = 3
    /\ ioCall.dir[<<"02", ".md">>].type = "file"
    /\ ioOut = Ret(FileText(<<"02", "/", "b", ".md">>))

\* C21: a base call that found only the single file
C21_WitnessSingleFile ==
    /\ ioPc = "returned"
    /\ ioCall.fn = "readStageDescription"
    /\ ioCall.kind = "base"
    /\ ioOut = Ret(FileText(<<"base-", "02", ".md">>))

\* C21: a call that found neither and threw
C21_WitnessNotFound ==
    /\ ioPc = "returned"
    /\ ioCall.fn = "readStageDescription"
    /\ ioOut = Throw("Stage description not found")


\* The stage directories of the call's language directory whose leading number
\* is the current stage's number minus one
PreviousStages ==
    LET es == ioCall.node.entries
        cur == LeadingDigits(ioCall.id)
    IN  IF cur = << >> \/ ioCall.node.type \notin {"dir", "noaccess"} THEN {}
        ELSE {es[k].name : k \in {k \in DOMAIN es :
                 /\ es[k].isDirectory
                 /\ LeadingDigits(es[k].name) # << >>
                 /\ DigitsValue(LeadingDigits(es[k].name)) = DigitsValue(cur) - 1}}

\* C22 (as stated): findPreviousStageId returns a stage directory of the
\* language whose leading number is the current one minus one, and null when
\* there is none: no leading number in the current id, no language directory,
\* no directory with that number
C22_PreviousStage ==
    (ioPc = "returned" /\ ioCall.fn = "findPreviousStageId") =>
        /\ ~ioOut.threw
        /\ IF PreviousStages = {} THEN ioOut.v = NoStage ELSE ioOut.v \in PreviousStages

\* What holds of findPreviousStageId: the same, when solutions/<language> is
\* missing or a directory that can be listed, and whenever the call returns
C22_PreviousStageWhenListed ==
    (ioPc = "returned" /\ ioCall.fn = "findPreviousStageId"
        /\ (ioCall.node.type \in {"absent", "dir"} \/ ~ioOut.threw)) =>
        /\ ~ioOut.threw
        /\ IF PreviousStages = {} \/ ioCall.node.type = "noaccess"
           THEN ioOut.v = NoStage ELSE ioOut.v \in PreviousStages

\* C23 (as stated): for every state of solutions/<language>,
\* readPreviousSolution returns {stageId: null, code: ""} or a stage id with
\* its code, and readSolutionAt returns a string; neither throws
C23_OptionalInputsNeverRaise ==
    /\ (ioPc = "returned" /\ ioCall.fn = "readPreviousSolution") =>
          /\ ~ioOut.threw
          /\ ioOut.v.stageId = NoStage => ioOut.v.code = << >>
    /\ (ioPc = "returned" /\ ioCall.fn = "readSolutionAt") => ~ioOut.threw

\* What holds: readSolutionAt never throws, and readPreviousSolution does not
\* when solutions/<language> is missing or can be listed
C23_NeverRaiseWhenListed ==
    (/\ ioPc = "returned"
     /\ ioCall.fn \in {"readPreviousSolution", "readSolutionAt"}
     /\ (ioCall.fn = "readSolutionAt" \/ ioCall.node.type \in {"absent", "dir"}))
        => ~ioOut.threw


\* ------------------------------------------------ properties of the solution text

\* Whether the response holds a fenced block: a fence, an optional word, a
\* newline, and a closing fence later on
HasFencedBlock ==
    \E i, j, k \in DOMAIN codeResp :
        /\ i < j /\ j < k
        /\ codeResp[i] = Fence /\ codeResp[j] = "\n" /\ codeResp[k] = Fence
        /\ \A n \in (i + 1)..(j - 1) : codeResp[n] \in {"ts", "x"}

\* C24 (as stated): the text written into the entry file is the contents of the
\* response's first fenced block, or the trimmed response when it has none
C24_WrittenIsFencedCode ==
    (codePc = "written" /\ ~codeDry) =>
        /\ codeFile = LlmCode(codeResp)
        /\ HasFencedBlock => \A n \in DOMAIN codeFile : codeFile[n] # Fence

\* What holds: a response without a fenced block is written trimmed, and every
\* response is written as generateSolutionCode returned it
C24_WrittenIsTrimmedResponse ==
    (codePc = "written" /\ ~codeDry) =>
        /\ codeFile = codeSol
        /\ ~HasFencedBlock => codeFile = LlmCode(codeResp)
        /\ codeFile = << >> \/ (codeFile[1] \notin {" ", "\n"}
                                  /\ codeFile[Len(codeFile)] \notin {" ", "\n"})


\* ------------------------------------------------ progress of runPool

\* The tasks that are not hung
Settling == (0..(nTasks - 1)) \ hung

\* C25: when no task hangs (and none rejects) runPool eventually resolves;
\* with fewer hung tasks than workers every other task is eventually started
\* and fulfilled, and with a hung task runPool never settles
C25_Progress ==
    /\ (hung = {}) => <>(poolState = "resolved")
    /\ (Cardinality(hung) < WorkerCount(limit, nTasks)) =>
          <>(\A i \in Settling : taskState[i] = "fulfilled")
    /\ (hung # {} /\ Cardinality(hung) < WorkerCount(limit, nTasks)) =>
          [](poolState \notin {"resolved", "rejected"})

\* C25: two workers, the first task hung: the other two tasks are fulfilled
\* by the second worker and the pool is still pending
C25_Witness ==
    /\ nTasks = 3
    /\ limit = Num(2)
    /\ hung = {0}
    /\ taskState = [i \in 0..2 |-> IF i = 0 THEN "pending" ELSE "fulfilled"]
    /\ poolState = "pending"


\* ------------------------------------------------ the summary and the order of a run

\* The language tasks that ran to their end
DoneTasks == {i \in DOMAIN rTasks : rTasks[i] = "done"}

\* C26 (as stated): the summary line is printed only after every target's task
\* has run to successful completion, and its count, TARGETS.length, is the
\* number of tasks that completed, whatever LANG_CONC is
C26_SummaryAfterAllTasks ==
    rPrinted = "summary" =>
        /\ DOMAIN rTasks = DOMAIN rTargets
        /\ DoneTasks = DOMAIN rTargets
        /\ Cardinality(DoneTasks) = Len(rTargets)

\* What holds: the same when LANG_CONC is a number
C26_SummaryAfterAllTasksOfNumber == rLimit.nan \/ C26_SummaryAfterAllTasks


\* C27: with the stage description absent main never gets to the reference
\* examples, no backend call is made, no language task exists, nothing is
\* deleted or written, and the process does not exit with 0
C27_NoStageDescriptionAborts ==
    ~rStageDesc =>
        /\ rPc \notin {"described", "ready", "running", "finished"}
        /\ rTasks = << >>
        /\ rCalls = {}
        /\ rOps = {}
        /\ rPrinted # "summary"
        /\ rExit # 0
        /\ (rReads /\ rExit = NoExit) => rRejected

\* C27: a run with the key and a target, whose read of the stage description
\* failed and that ended with exit code 1
C27_Witness ==
    /\ ~rStageDesc
    /\ rEnv.apiKey
    /\ rTargets # << >>
    /\ rReads
    /\ rExit = 1

\* The filesystem operations task i has made
OpsOf(i) == {o \in rOps : o.task = i}

\* C28: a language task touches its output only after both of its generations
\* succeeded; the hints file is written after the copy and the write of the
\* solution file; a task whose generation failed has touched nothing
C28_WritesAfterGeneration ==
    /\ \A o \in rOps : o.task \in rGenerated
    /\ \A i \in DOMAIN rTasks :
          /\ (rTasks[i] \in {"prev", "generate", "prepare", "unclaimed"}) => OpsOf(i) = {}
          /\ (rTasks[i] = "failed" /\ i \notin rGenerated) => OpsOf(i) = {}
          /\ (\E o \in OpsOf(i) : o.op \in {"mkdirConfig", "writeConfig"}) =>
                /\ {"rm", "mkdir", "copy", "writeFile"} \subseteq {o.op : o \in OpsOf(i)}
                /\ rTasks[i] = "done"
          /\ (\E o \in OpsOf(i) : o.op \in {"writeFile", "mkdirSrc"}) =>
                {"rm", "mkdir", "copy"} \subseteq {o.op : o \in OpsOf(i)}

\* C28: one task has failed in its generation and touched nothing, the other
\* has written its solution file and its hints file
C28_Witness ==
    /\ Len(rTasks) = 2
    /\ \E i, j \in DOMAIN rTasks :
          /\ rTasks[i] = "failed" /\ i \notin rGenerated /\ i \in rCalls
          /\ rTasks[j] = "done"
          /\ \E o \in OpsOf(j) : o.op = "writeConfig"


\* ------------------------------------------------ the workers after a rejection

\* Worker w's task fulfils in this step, after runPool has rejected
LateFulfil(w) ==
    /\ poolState = "rejected"
    /\ w \in DOMAIN workers
    /\ workers[w].pc = "await"
    /\ taskState[workers[w].i] = "pending"
    /\ taskState'[workers[w].i] = "fulfilled"

\* C29: once runPool has rejected, a worker that awaits a task can still have
\* it fulfilled, and when that happens the worker stores the result and calls
\* the next unclaimed task, or returns when there is none
C29_WorkersGoOn ==
    /\ [](poolState = "rejected" =>
            \A w \in DOMAIN workers :
                (workers[w].pc = "await" /\ workers[w].i \notin hung)
                    => ENABLED TaskFulfil(w, "a"))
    /\ [][\A w \in 1..MaxTasks : LateFulfil(w) =>
            /\ results'[workers[w].i] # Empty
            /\ IF next < nTasks
               THEN /\ workers'[w] = [pc |-> "await", i |-> next]
                    /\ taskState[next] = "unstarted"
                    /\ taskState'[next] = "pending"
                    /\ calls'[next] = 1
                    /\ next \in lateStarts'
               ELSE workers'[w].pc = "returned"]_vars

\* C29: a task was called after runPool had rejected, and has been fulfilled
C29_Witness ==
    /\ poolState = "rejected"
    /\ \E i \in lateStarts : taskState[i] = "fulfilled" /\ calls[i] = 1


\* ------------------------------------------------------- the flags of parseCLI

RecognisedFlags ==
    {Flag("project-root"), Flag("challenge-slug"), Flag("stage-id"),
     Flag("stage-kind"), Flag("refs"), Flag("targets"), Flag("model")}

\* The positions read as a flag when every recognised flag takes the token
\* after it, whatever that token is
RECURSIVE FlagPositions(_, _)
FlagPositions(args, i) ==
    IF i > Len(args) THEN {}
    ELSE {i} \cup FlagPositions(args, IF args[i] \in RecognisedFlags
                                      THEN i + 2 ELSE i + 1)

\* The positions where the flag stands with a value: a token that follows it,
\* is not empty and does not start with "--"
ValidOccurrences(args, flag) ==
    {i \in FlagPositions(args, 1) :
        /\ args[i] = flag
        /\ i + 1 <= Len(args)
        /\ args[i + 1] # << >>
        /\ ~StartsWithDashes(args[i + 1])}

LastOf(positions) == CHOOSE i \in positions : \A j \in positions : j <= i

\* The value of the flag's last valid occurrence, when there is one
LastValue(args, positions) ==
    IF positions = {} THEN Unset ELSE Some(args[LastOf(positions) + 1])

ListOf(v) == IF v.set THEN Some(CsvList(v.v)) ELSE Unset

\* C30: a recognised flag takes the token after it unconditionally: a "--"
\* token in that place leaves the option unset and is not read as a flag, and
\* of a repeated flag the last occurrence with a value decides the option
C30_FlagTakesNextToken ==
    cliPc = "parsed" =>
        /\ cliOpts.model = LastValue(argv, ValidOccurrences(argv, Flag("model")))
        /\ cliOpts.targets =
               ListOf(LastValue(argv, ValidOccurrences(argv, Flag("targets"))))
        /\ cliOpts.stageKind =
               LastValue(argv, {i \in ValidOccurrences(argv, Flag("stage-kind")) :
                                    argv[i + 1] \in {<<"base">>, <<"localized">>}})
        /\ argv = <<Flag("model"), Flag("targets"), <<"go">>>>
               => ~cliOpts.model.set /\ ~cliOpts.targets.set

\* C30: [--model, --targets, go] was parsed and set neither option
C30_Witness ==
    /\ cliPc = "parsed"
    /\ argv = <<Flag("model"), Flag("targets"), <<"go">>>>
    /\ cliOpts = EmptyOpts

\* C30: a flag given twice with a value has the second one
C30_WitnessRepeated ==
    /\ cliPc = "parsed"
    /\ argv = <<Flag("model"), <<"go">>, Flag("model"), <<"zig">>>>
    /\ cliOpts.model = Some(<<"zig">>)

====
